---- MODULE Spec2Model ----
(***************************************************************************)
(* Verification model of hyperscale-rs: quorum arithmetic, the view-change *)
(* state machine, the BFT commit pipeline, the provision coordinator, the  *)
(* livelock trackers and the execution vote tracker.                       *)
(*                                                                         *)
(* Each component has its own variables and its own specification; the     *)
(* variables of the components a specification does not exercise keep the  *)
(* value they have after construction.                                     *)
(***************************************************************************)
EXTENDS Integers, Sequences, FiniteSets, TLC

VARIABLES
    \* --- VotePower::has_quorum applied to drawn inputs ---
    hq_voted, hq_total, hq_result,
    \* --- ViewChangeState (crates/bft/src/view_change.rs) ---
    current_round, current_height, timeout_vote_broadcast,
    vote_collector, highest_qc, highest_qc_collector,
    now, last_progress_time,
    vc_ret,
    \* --- VoteTracker (crates/execution/src/trackers/vote.rs) ---
    votes_by_root, power_by_root, vt_ret,
    \* --- CommittedCrossShardTracker (crates/livelock/src/tracker.rs) ---
    txs_needing_shards, shards_needed_by,
    \* --- livelock detector, one per shard (spec 4.5) ---
    ll_committed, ll_provisions, ll_remote, ll_deferred, ll_decisions,
    ll_home, ll_msgs,
    \* --- provision coordinator (spec 4.4) ---
    pc_registered, pc_pending, pc_verified, pc_emitted, pc_ret,
    \* --- BFT commit pipeline of the honest validators (spec 4.1) ---
    bft_votes, bft_pinned, bft_committed,
    \* --- Merkle tree built from drawn leaves (crates/types/src/merkle.rs) ---
    mk_leaves, mk_ret, mk_checked,
    \* --- VoteBatcher (crates/execution/src/batcher.rs) ---
    block_batch, latent_pending, latent_last_flush, vb_ret,
    \* --- the second copy of the view-change state and of the batcher ---
    det_machine, det_vc, det_vc_ret, det_vb, det_vb_ret,
    \* --- VoteBatcher: the latent flush configuration ---
    latent_flush_interval, latent_flush_threshold,
    \* --- Topology::proposer_for applied to drawn inputs ---
    pf_committee, pf_height, pf_round, pf_ret,
    \* --- CompositeStateMachine (crates/core/src/traits.rs) ---
    cm_subs, cm_event, cm_ret,
    \* --- OverlayTreeStore (crates/engine/src/overlay.rs) ---
    base, inserted_nodes, stale_keys, ov_history, ov_base_at_new,
    \* --- SignerBitfield, byte by byte (crates/types/src/signer_bitfield.rs) ---
    signer_bitfield, sb_ret,
    \* --- quorum checks of voter sets against a committee's total power ---
    qi_powers, qi_quorums, qi_ret,
    \* --- quorum threshold of a shard against has_quorum ---
    qt_total, qt_voted, qt_threshold, qt_has_quorum, qt_reported,
    \* --- the votes handed to the batcher and not yet returned ---
    fh_block, fh_latent, fh_flushed, fh_panicked,
    \* --- the proposer of a block header against the proposer of the topology ---
    ep_validators, ep_num_shards, ep_local, ep_height, ep_round, ep_expected, ep_proposer,
    \* --- the time of a composite state machine ---
    ct_sub_now, ct_passed, ct_now_ret

hqVars == <<hq_voted, hq_total, hq_result>>
vcVars == <<current_round, current_height, timeout_vote_broadcast,
            vote_collector, highest_qc, highest_qc_collector,
            now, last_progress_time, vc_ret>>
vtVars == <<votes_by_root, power_by_root, vt_ret>>
trVars == <<txs_needing_shards, shards_needed_by>>
llVars == <<ll_committed, ll_provisions, ll_remote, ll_deferred, ll_decisions,
            ll_home, ll_msgs>>
pcVars == <<pc_registered, pc_pending, pc_verified, pc_emitted, pc_ret>>
bftVars == <<bft_votes, bft_pinned, bft_committed>>
mkVars == <<mk_leaves, mk_ret, mk_checked>>
vbVars == <<block_batch, latent_pending, latent_last_flush,
            latent_flush_interval, latent_flush_threshold, vb_ret>>
detVars == <<det_machine, det_vc, det_vc_ret, det_vb, det_vb_ret>>
pfVars == <<pf_committee, pf_height, pf_round, pf_ret>>
cmVars == <<cm_subs, cm_event, cm_ret>>
ovVars == <<base, inserted_nodes, stale_keys, ov_history, ov_base_at_new>>
sbVars == <<signer_bitfield, sb_ret>>
qiVars == <<qi_powers, qi_quorums, qi_ret>>
qtVars == <<qt_total, qt_voted, qt_threshold, qt_has_quorum, qt_reported>>
fhVars == <<fh_block, fh_latent, fh_flushed, fh_panicked>>
epVars == <<ep_validators, ep_num_shards, ep_local, ep_height, ep_round, ep_expected, ep_proposer>>
ctVars == <<ct_sub_now, ct_passed, ct_now_ret>>

(***************************************************************************)
(* Bounds of the model.                                                    *)
(***************************************************************************)
MaxPower == 10        \* has_quorum inputs are drawn from 0..MaxPower
NumValidators == 3    \* size of the local committee of the view-change node
MaxHeight == 1        \* heights 0..MaxHeight
MaxRound == 2         \* rounds 0..MaxRound
MaxTime == 2          \* set_time values 0..MaxTime
Timeout == 1          \* the view change timeout handed to ViewChangeState::new
MaxStoredVotes == 2   \* votes kept in vote_collector over all keys
NumStateRoots == 2     \* state roots 1..NumStateRoots
MaxTrackedVotes == 3   \* votes held by the execution vote tracker
NumShards == 2         \* shard groups 0..NumShards-1
HashLen == 2           \* bytes of a transaction hash in the model
MaxByte == 1           \* each byte of a hash is in 0..MaxByte
MaxPending == 2        \* provisions queued for signature verification
BftMaxHeight == 3      \* block heights 1..BftMaxHeight
NumBranches == 2       \* blocks proposed on top of one parent
MaxLeaves == 5         \* leaves of a Merkle tree
MaxBatch == 3          \* votes pending in the vote batcher
FlushInterval == 1     \* the latent_flush_interval handed to with_latent_config
FlushThreshold == 3    \* the latent_flush_threshold handed to with_latent_config
WordBits == 4          \* bits of the u64 of heights and rounds handed to proposer_for
MaxCommittee == 4      \* committee sizes 1..MaxCommittee handed to proposer_for

\* Option<T>: None is the empty tuple and Some(x) the tuple holding x.
None == <<>>

Some(x) == <<x>>

Unwrap(opt) == opt[1]

(***************************************************************************)
(* Small helpers.                                                          *)
(***************************************************************************)
RECURSIVE SumOver(_, _)
SumOver(S, f) ==
    IF S = {} THEN 0
    ELSE LET x == CHOOSE y \in S : TRUE
         IN f[x] + SumOver(S \ {x}, f)

(***************************************************************************)
(* VotePower::has_quorum (crates/types/src/identifiers.rs).                *)
(***************************************************************************)
\* The comparison as it would be if exactly two thirds were enough.
has_quorum_non_strict(voted, total) == voted * 3 >= total * 2

\* The comparison as it would be without the factor on the total.
has_quorum_dropped_factor(voted, total) == voted * 3 > total

\* VotePower::has_quorum.
has_quorum(voted, total) == voted * 3 > total * 2

(***************************************************************************)
(* Topology of the view-change node: an ordered local committee of         *)
(* NumValidators validators with ids 0..NumValidators-1 (StaticTopology    *)
(* pushes validators in validator-set order), validator 0 holding power 2  *)
(* and the others power 1, and one validator id outside the set.           *)
(***************************************************************************)
local_committee == [i \in 0 .. NumValidators - 1 |-> i]

CommitteeIds == {local_committee[i] : i \in DOMAIN local_committee}

UnknownValidator == NumValidators

LocalValidator == 0

\* Topology::voting_power: Some(power) for a validator of the set.
topology_voting_power(validator_id) ==
    IF validator_id \in CommitteeIds
    THEN Some(IF validator_id = 0 THEN 2 ELSE 1)
    ELSE None

\* ViewChangeState::voting_power: unwrap_or(0).
voting_power(validator_id) ==
    IF topology_voting_power(validator_id) = None THEN 0
    ELSE Unwrap(topology_voting_power(validator_id))

\* Topology::local_voting_power: the committee's total, summed at construction.
total_voting_power ==
    SumOver(CommitteeIds, [v \in CommitteeIds |-> voting_power(v)])

\* Topology::local_committee_index: position of the validator, or None.
committee_index(validator_id) ==
    IF \E i \in DOMAIN local_committee : local_committee[i] = validator_id
    THEN Some(CHOOSE i \in DOMAIN local_committee : local_committee[i] = validator_id)
    ELSE None

\* Topology::local_validator_at_index.
local_validator_at_index(index) ==
    IF index \in DOMAIN local_committee THEN Some(local_committee[index]) ELSE None

\* Topology::public_key: the key is identified with its owner.
public_key(validator_id) ==
    IF validator_id \in CommitteeIds THEN Some(validator_id) ELSE None

(***************************************************************************)
(* Signatures.  A BLS signature is the set of keys whose signatures it     *)
(* aggregates together with the message they signed; it verifies under an  *)
(* aggregated public key exactly when the key sets and the messages agree. *)
(***************************************************************************)
view_change_message(height, new_round) == <<"view_change:", height, new_round>>

sign(validator_id, message) == [signers |-> {validator_id}, msg |-> message]

\* A verification that accepts every signature.
verify_always(pubkeys, message, signature) == TRUE

\* PublicKey::verify, the keys being already aggregated.
verify(pubkeys, message, signature) ==
    /\ signature.signers = pubkeys
    /\ signature.msg = message

\* Signature::aggregate_bls: Err(Empty) on an empty list.
aggregate_bls(signatures) ==
    IF signatures = {} THEN None
    ELSE Some([signers |-> UNION {sg.signers : sg \in signatures},
               msg |-> IF Cardinality({sg.msg : sg \in signatures}) = 1
                       THEN (CHOOSE sg \in signatures : TRUE).msg
                       ELSE <<"mixed">>])

(***************************************************************************)
(* SignerBitfield: num_validators and the set of set bits.                 *)
(***************************************************************************)
SignerBitfieldNew(num_validators) ==
    [num_validators |-> num_validators, bits |-> {}]

BitfieldSet(bf, index) ==
    IF index < bf.num_validators
    THEN [bf EXCEPT !.bits = @ \cup {index}]
    ELSE bf

set_indices(bf) == {i \in 0 .. bf.num_validators - 1 : i \in bf.bits}

BitfieldCount(bf) == Cardinality(bf.bits)

(***************************************************************************)
(* QuorumCertificate: height, block hash, the declared voting_power and    *)
(* the validators whose block votes the aggregated signature really holds. *)
(***************************************************************************)
ZeroHash == 0

GenesisQC == [height |-> 0, block_hash |-> ZeroHash, voting_power |-> 0, signers |-> {}]

qc_is_genesis(qc) == qc.height = 0 /\ qc.block_hash = ZeroHash

qc_has_quorum(qc, total_power) == has_quorum(qc.voting_power, total_power)

\* A certificate over block 1 at height 1 signed by the whole committee.
RealQC == [height |-> 1, block_hash |-> 1,
           voting_power |-> total_voting_power, signers |-> CommitteeIds]

\* A certificate over block 4 at height 2 signed by the whole committee.
RealQC2 == [height |-> 2, block_hash |-> 4,
            voting_power |-> total_voting_power, signers |-> CommitteeIds]

\* A certificate a Byzantine voter made up: it declares full power and
\* carries no signer.
ForgedQC == [height |-> 2, block_hash |-> 2,
             voting_power |-> total_voting_power, signers |-> {}]

\* A certificate whose declared power is below quorum.
WeakQC == [height |-> 1, block_hash |-> 3,
           voting_power |-> 1, signers |-> {1}]

QCInputs == {GenesisQC, RealQC, ForgedQC, WeakQC}

(***************************************************************************)
(* ViewChangeState.  The methods are functions from the state record (the  *)
(* struct's fields) to the new state and the returned value, so that a     *)
(* method can call another as the code does.                               *)
(***************************************************************************)
VCState ==
    [current_round |-> current_round,
     current_height |-> current_height,
     timeout_vote_broadcast |-> timeout_vote_broadcast,
     vote_collector |-> vote_collector,
     highest_qc |-> highest_qc,
     highest_qc_collector |-> highest_qc_collector,
     now |-> now,
     last_progress_time |-> last_progress_time]

Restrict(f, S) == [k \in S |-> f[k]]

\* ViewChangeState::calculate_voting_power over the keys of a voter map.
calculate_voting_power(voters) ==
    SumOver(voters, [v \in voters |-> voting_power(v)])

\* cleanup_old_votes as it would be if it pruned vote_collector alone.
cleanup_old_votes_of_vote_collector(s, height) ==
    [s EXCEPT
        !.vote_collector =
            Restrict(@, {k \in DOMAIN @ : k[1] >= height})]

\* ViewChangeState::cleanup_old_votes.
cleanup_old_votes(s, height) ==
    [s EXCEPT
        !.vote_collector =
            Restrict(@, {k \in DOMAIN @ : k[1] >= height}),
        !.highest_qc_collector =
            Restrict(@, {k \in DOMAIN @ : k[1] >= height})]

\* should_change_view as it would be if the timeout ran from the start of the
\* clock and not from the last progress.
should_change_view_since_start(s) ==
    IF s.current_height = 0 THEN FALSE ELSE s.now > Timeout

\* should_change_view as it would be without the check of the genesis height.
should_change_view_at_any_height(s) ==
    LET elapsed == IF s.now >= s.last_progress_time
                   THEN s.now - s.last_progress_time ELSE 0
    IN elapsed > Timeout

\* ViewChangeState::should_change_view.
should_change_view(s) ==
    IF s.current_height = 0 THEN FALSE
    ELSE LET elapsed == IF s.now >= s.last_progress_time
                        THEN s.now - s.last_progress_time ELSE 0
         IN elapsed > Timeout

\* ViewChangeState::update_highest_qc.
update_highest_qc(s, qc) ==
    IF qc.height > s.highest_qc.height THEN [s EXCEPT !.highest_qc = qc] ELSE s

\* reset_timeout as it would be if every reset returned to round 0.
reset_timeout_to_round_zero(s, height) ==
    cleanup_old_votes([s EXCEPT !.current_height = height,
                                !.current_round = 0,
                                !.last_progress_time = s.now,
                                !.timeout_vote_broadcast = FALSE],
                      height)

\* ViewChangeState::reset_timeout.
reset_timeout(s, height) ==
    LET old_height == s.current_height
        s1 == [s EXCEPT !.current_height = height]
        s2 == IF height > old_height THEN [s1 EXCEPT !.current_round = 0] ELSE s1
        s3 == [s2 EXCEPT !.last_progress_time = s.now,
                         !.timeout_vote_broadcast = FALSE]
    IN cleanup_old_votes(s3, height)

\* create_view_change_vote as it would be without the timeout_vote_broadcast
\* guard.
create_view_change_vote_unguarded(s) ==
    LET new_round == s.current_round + 1
    IN [s |-> [s EXCEPT !.timeout_vote_broadcast = TRUE],
        vote |-> Some(
                 [height |-> s.current_height,
                  current_round |-> s.current_round,
                  new_view |-> new_round,
                  voter |-> LocalValidator,
                  highest_qc |-> s.highest_qc,
                  signature |-> sign(LocalValidator,
                      view_change_message(s.current_height, new_round))])]

\* ViewChangeState::create_view_change_vote.
create_view_change_vote(s) ==
    IF s.timeout_vote_broadcast THEN [s |-> s, vote |-> None]
    ELSE LET new_round == s.current_round + 1
         IN [s |-> [s EXCEPT !.timeout_vote_broadcast = TRUE],
             vote |-> Some(
                      [height |-> s.current_height,
                       current_round |-> s.current_round,
                       new_view |-> new_round,
                       voter |-> LocalValidator,
                       highest_qc |-> s.highest_qc,
                       signature |-> sign(LocalValidator,
                           view_change_message(s.current_height, new_round))])]

\* The entry().and_modify().or_insert() on highest_qc_collector, as it would
\* be with the comparison turned around.
track_highest_qc_lowest(collector, vote_key, qc) ==
    IF vote_key \in DOMAIN collector
    THEN (IF qc.height < collector[vote_key].height
          THEN [collector EXCEPT ![vote_key] = qc] ELSE collector)
    ELSE (vote_key :> qc) @@ collector

\* The entry().and_modify().or_insert() on highest_qc_collector.
track_highest_qc(collector, vote_key, qc) ==
    IF vote_key \in DOMAIN collector
    THEN (IF qc.height > collector[vote_key].height
          THEN [collector EXCEPT ![vote_key] = qc] ELSE collector)
    ELSE (vote_key :> qc) @@ collector

\* The duplicate branch as it would be if the repeated vote were counted.
duplicate_vote_power_counted(voters, voter) ==
    calculate_voting_power(DOMAIN voters) + voting_power(voter)

\* The duplicate branch of add_view_change_vote: the power of the keys of
\* the voter map, the repeated vote not being inserted.
duplicate_vote_power(voters, voter) ==
    calculate_voting_power(DOMAIN voters)

\* The checks of add_view_change_vote as they would be without the one of
\* the attached highest_qc.
vote_rejected_without_qc_check(s, vote) ==
    \/ vote.height < s.current_height
    \/ (vote.height = s.current_height /\ vote.new_view <= s.current_round)
    \/ committee_index(vote.voter) = None
    \/ public_key(vote.voter) = None
    \/ ~verify({Unwrap(public_key(vote.voter))},
               view_change_message(vote.height, vote.new_view), vote.signature)

\* The checks of add_view_change_vote before it touches the collectors.
vote_rejected(s, vote) ==
    \/ vote.height < s.current_height
    \/ (vote.height = s.current_height /\ vote.new_view <= s.current_round)
    \/ committee_index(vote.voter) = None
    \/ public_key(vote.voter) = None
    \/ ~verify({Unwrap(public_key(vote.voter))},
               view_change_message(vote.height, vote.new_view), vote.signature)
    \/ (~qc_is_genesis(vote.highest_qc)
        /\ ~qc_has_quorum(vote.highest_qc, total_voting_power))

\* ViewChangeState::add_view_change_vote.  log is the line the call writes to
\* the log: the vote was rejected, ignored as a duplicate, or added.
add_view_change_vote(s, vote) ==
    LET vote_key == <<vote.height, vote.new_view>>
        total_power == total_voting_power
    IN
    IF vote_rejected(s, vote) THEN [s |-> s, result |-> None, log |-> <<"rejected">>]
    ELSE
      LET hqc == track_highest_qc(s.highest_qc_collector, vote_key, vote.highest_qc)
          voters == IF vote_key \in DOMAIN s.vote_collector
                    THEN s.vote_collector[vote_key] ELSE <<>>
      IN
      IF vote.voter \in DOMAIN voters
      THEN [s |-> [s EXCEPT !.highest_qc_collector = hqc],
            result |-> IF has_quorum(duplicate_vote_power(voters, vote.voter), total_power)
                       THEN Some(vote_key) ELSE None,
            log |-> <<"duplicate", vote_key, vote.voter>>]
      ELSE
        LET voters2 == (vote.voter :> [signature |-> vote.signature,
                                       highest_qc |-> vote.highest_qc]) @@ voters
            vote_power == calculate_voting_power(DOMAIN voters2)
        IN [s |-> [s EXCEPT !.highest_qc_collector = hqc,
                            !.vote_collector = (vote_key :> voters2) @@ @],
            result |-> IF has_quorum(vote_power, total_power)
                       THEN Some(vote_key) ELSE None,
            log |-> <<"added", vote_key, vote.voter>>]

\* ViewChangeState::build_certificate.
build_certificate(s, height, new_round) ==
    LET vote_key == <<height, new_round>> IN
    IF vote_key \notin DOMAIN s.vote_collector THEN None
    ELSE
      LET voters == s.vote_collector[vote_key]
          vote_power == calculate_voting_power(DOMAIN voters)
          agg == aggregate_bls({voters[v].signature : v \in DOMAIN voters})
          RECURSIVE SetAll(_, _)
          SetAll(bf, ids) ==
              IF ids = {} THEN bf
              ELSE LET v == CHOOSE x \in ids : TRUE
                   IN SetAll(IF committee_index(v) = None THEN bf
                             ELSE BitfieldSet(bf, Unwrap(committee_index(v))),
                             ids \ {v})
          qc == IF vote_key \in DOMAIN s.highest_qc_collector
                THEN s.highest_qc_collector[vote_key] ELSE GenesisQC
      IN
      IF ~has_quorum(vote_power, total_voting_power) THEN None
      ELSE IF agg = None THEN None
      ELSE Some(
           [height |-> height,
            new_view |-> new_round,
            highest_qc |-> qc,
            highest_qc_block_hash |-> qc.block_hash,
            aggregated_signature |-> Unwrap(agg),
            signers |-> SetAll(SignerBitfieldNew(Cardinality(DOMAIN local_committee)),
                               DOMAIN voters),
            voting_power |-> vote_power])

\* apply_view_change as it would be if it left timeout_vote_broadcast alone.
apply_view_change_keeping_guard(s, height, new_round) ==
    IF height # s.current_height THEN [s |-> s, actions |-> <<>>]
    ELSE IF new_round <= s.current_round THEN [s |-> s, actions |-> <<>>]
    ELSE
      LET s1 == cleanup_old_votes(
                    [s EXCEPT !.current_round = new_round,
                              !.last_progress_time = s.now],
                    height)
          cert == build_certificate(s1, height, new_round)
          completed == [type |-> "ViewChangeCompleted",
                        height |-> height, new_round |-> new_round]
      IN [s |-> s1,
          actions |-> IF cert = None THEN <<completed>>
                      ELSE <<[type |-> "BroadcastViewChangeCertificate",
                              certificate |-> Unwrap(cert)], completed>>]

\* apply_view_change as it would be without the test of the round.
apply_view_change_any_round(s, height, new_round) ==
    IF height # s.current_height THEN [s |-> s, actions |-> <<>>]
    ELSE
      LET s1 == cleanup_old_votes(
                    [s EXCEPT !.current_round = new_round,
                              !.last_progress_time = s.now,
                              !.timeout_vote_broadcast = FALSE],
                    height)
          cert == build_certificate(s1, height, new_round)
          completed == [type |-> "ViewChangeCompleted",
                        height |-> height, new_round |-> new_round]
      IN [s |-> s1,
          actions |-> IF cert = None THEN <<completed>>
                      ELSE <<[type |-> "BroadcastViewChangeCertificate",
                              certificate |-> Unwrap(cert)], completed>>]

\* ViewChangeState::apply_view_change.
apply_view_change(s, height, new_round) ==
    IF height # s.current_height THEN [s |-> s, actions |-> <<>>]
    ELSE IF new_round <= s.current_round THEN [s |-> s, actions |-> <<>>]
    ELSE
      LET s1 == cleanup_old_votes(
                    [s EXCEPT !.current_round = new_round,
                              !.last_progress_time = s.now,
                              !.timeout_vote_broadcast = FALSE],
                    height)
          cert == build_certificate(s1, height, new_round)
          completed == [type |-> "ViewChangeCompleted",
                        height |-> height, new_round |-> new_round]
      IN [s |-> s1,
          actions |-> IF cert = None THEN <<completed>>
                      ELSE <<[type |-> "BroadcastViewChangeCertificate",
                              certificate |-> Unwrap(cert)], completed>>]

\* ViewChangeState::verify_certificate_signature: TRUE for Ok, FALSE for Err.
verify_certificate_signature(s, cert) ==
    LET signer_keys ==
            {Unwrap(public_key(Unwrap(local_validator_at_index(idx)))) :
                idx \in {i \in set_indices(cert.signers) :
                            /\ local_validator_at_index(i) # None
                            /\ public_key(Unwrap(local_validator_at_index(i))) # None}}
    IN /\ signer_keys # {}
       /\ Cardinality(signer_keys) = BitfieldCount(cert.signers)
       /\ verify(signer_keys,
                 view_change_message(cert.height, cert.new_view),
                 cert.aggregated_signature)

\* The certificate checks, without the one of the aggregated signature.
certificate_accepted_unverified(s, cert) ==
    /\ cert.height = s.current_height
    /\ cert.new_view > s.current_round
    /\ has_quorum(cert.voting_power, total_voting_power)
    /\ (qc_is_genesis(cert.highest_qc)
        \/ qc_has_quorum(cert.highest_qc, total_voting_power))

\* The checks on_view_change_certificate makes before it applies a certificate.
certificate_accepted(s, cert) ==
    /\ cert.height = s.current_height
    /\ cert.new_view > s.current_round
    /\ has_quorum(cert.voting_power, total_voting_power)
    /\ verify_certificate_signature(s, cert)
    /\ (qc_is_genesis(cert.highest_qc)
        \/ qc_has_quorum(cert.highest_qc, total_voting_power))

\* ViewChangeState::on_view_change_certificate.
on_view_change_certificate(s, cert) ==
    IF ~certificate_accepted(s, cert) THEN [s |-> s, actions |-> <<>>]
    ELSE [s |-> cleanup_old_votes(
                    [s EXCEPT !.current_round = cert.new_view,
                              !.last_progress_time = s.now,
                              !.timeout_vote_broadcast = FALSE],
                    cert.height),
          actions |-> <<[type |-> "ViewChangeCompleted",
                         height |-> cert.height, new_round |-> cert.new_view]>>]

\* on_view_change_timer as it would be if it re-armed the timer only when it
\* goes on to a view change.
on_view_change_timer_rearming_on_change(s) ==
    IF ~should_change_view(s) THEN [s |-> s, actions |-> <<>>]
    ELSE
      LET set_timer == [type |-> "SetTimer", id |-> "ViewChange", duration |-> Timeout]
          created == create_view_change_vote(s) IN
      IF created.vote = None THEN [s |-> created.s, actions |-> <<set_timer>>]
      ELSE
        LET broadcast == [type |-> "BroadcastViewChangeVote",
                          vote |-> Unwrap(created.vote)]
            added == add_view_change_vote(created.s, Unwrap(created.vote))
        IN
        IF added.result = None
        THEN [s |-> added.s, actions |-> <<set_timer, broadcast>>]
        ELSE LET applied == apply_view_change(added.s, Unwrap(added.result)[1],
                                              Unwrap(added.result)[2])
             IN [s |-> applied.s,
                 actions |-> <<set_timer, broadcast>> \o applied.actions]

\* ViewChangeState::on_view_change_timer.
on_view_change_timer(s) ==
    LET set_timer == [type |-> "SetTimer", id |-> "ViewChange", duration |-> Timeout]
    IN
    IF ~should_change_view(s) THEN [s |-> s, actions |-> <<set_timer>>]
    ELSE
      LET created == create_view_change_vote(s) IN
      IF created.vote = None THEN [s |-> created.s, actions |-> <<set_timer>>]
      ELSE
        LET broadcast == [type |-> "BroadcastViewChangeVote",
                          vote |-> Unwrap(created.vote)]
            added == add_view_change_vote(created.s, Unwrap(created.vote))
        IN
        IF added.result = None
        THEN [s |-> added.s, actions |-> <<set_timer, broadcast>>]
        ELSE LET applied == apply_view_change(added.s, Unwrap(added.result)[1],
                                              Unwrap(added.result)[2])
             IN [s |-> applied.s,
                 actions |-> <<set_timer, broadcast>> \o applied.actions]

(***************************************************************************)
(* Inputs the runner and the network hand to the view-change machine.      *)
(***************************************************************************)
Heights == 0 .. MaxHeight

Rounds == 0 .. MaxRound

\* A view-change vote as it travels.
ViewChangeVote(h, r, v, qc, sg) ==
    [height |-> h,
     current_round |-> IF r > 0 THEN r - 1 ELSE 0,
     new_view |-> r,
     voter |-> v,
     highest_qc |-> qc,
     signature |-> sg]

\* The signatures that do not verify for a vote of voter v for (h, r): one
\* over another round, one made with another validator's key.
BadVoteSignatures(v, h, r) ==
    {sign(v, view_change_message(h, r + 1)),
     sign((v + 1) % NumValidators, view_change_message(h, r))}

\* Votes off the wire: well signed by a committee member, with every kind of
\* attached certificate; badly signed; and well signed by a stranger.
VoteInputs ==
    UNION {{ViewChangeVote(h, r, v, qc, sign(v, view_change_message(h, r))) :
                qc \in QCInputs}
           \cup {ViewChangeVote(h, r, v, GenesisQC, sg) :
                sg \in BadVoteSignatures(v, h, r)}
           \cup {ViewChangeVote(h, r, UnknownValidator, GenesisQC,
                                sign(UnknownValidator, view_change_message(h, r)))} :
           h \in Heights, r \in Rounds, v \in CommitteeIds}

\* Signer bitfields of received certificates: over the committee, and one
\* made for a larger committee with a bit past the local one.
BitfieldInputs ==
    {[num_validators |-> NumValidators, bits |-> b] :
        b \in {{}, {0}, {0, 1}, CommitteeIds \ {0}, CommitteeIds}}
    \cup {[num_validators |-> NumValidators + 1, bits |-> {0, NumValidators}]}

\* The aggregated signatures a certificate of signers bf for (h, r) may carry:
\* the signers' over the certificate's message, theirs over another round, or
\* validator 0's alone.
CertificateSignatureInputs(bf, h, r) ==
    {[signers |-> bf.bits, msg |-> view_change_message(h, r)],
     [signers |-> bf.bits, msg |-> view_change_message(h, r + 1)],
     [signers |-> {0}, msg |-> view_change_message(h, r)]}

\* The voting_power a certificate declares: its signers' own or the whole
\* committee's.
DeclaredPowerInputs(bf) ==
    {calculate_voting_power(bf.bits \cap CommitteeIds), total_voting_power}

\* Certificates off the wire.
CertificateInputs ==
    UNION {{[height |-> h,
             new_view |-> r,
             highest_qc |-> qc,
             highest_qc_block_hash |-> qc.block_hash,
             aggregated_signature |-> sg,
             signers |-> bf,
             voting_power |-> vp] :
                qc \in {GenesisQC, RealQC, WeakQC},
                vp \in DeclaredPowerInputs(bf),
                sg \in CertificateSignatureInputs(bf, h, r)} :
           h \in Heights, r \in Rounds, bf \in BitfieldInputs}

\* The number of votes held in a collector, over all its keys.
StoredVotes(collector) ==
    SumOver(DOMAIN collector,
            [k \in DOMAIN collector |-> Cardinality(DOMAIN collector[k])])

(***************************************************************************)
(* Construction and the operations, one action per public method.  vc_ret  *)
(* holds the last call and what it returned.                               *)
(***************************************************************************)
Ret(op, result, actions, log) ==
    [op |-> op, result |-> result, actions |-> actions, log |-> log]

SetVC(s) ==
    /\ current_round' = s.current_round
    /\ current_height' = s.current_height
    /\ timeout_vote_broadcast' = s.timeout_vote_broadcast
    /\ vote_collector' = s.vote_collector
    /\ highest_qc' = s.highest_qc
    /\ highest_qc_collector' = s.highest_qc_collector
    /\ now' = s.now
    /\ last_progress_time' = s.last_progress_time

\* ViewChangeState::new.
InitVC ==
    /\ current_round = 0
    /\ current_height = 0
    /\ timeout_vote_broadcast = FALSE
    /\ vote_collector = <<>>
    /\ highest_qc = GenesisQC
    /\ highest_qc_collector = <<>>
    /\ now = 0
    /\ last_progress_time = 0
    /\ vc_ret = Ret("new", None, <<>>, <<>>)

InitHQ ==
    /\ hq_voted = 0
    /\ hq_total = 0
    /\ hq_result = has_quorum(0, 0)


\* set_time: the runner's clock only moves forward.
SetTime(t) ==
    /\ t > now
    /\ SetVC([VCState EXCEPT !.now = t])
    /\ vc_ret' = Ret("set_time", None, <<>>, <<>>)
    /\ UNCHANGED <<hqVars, vtVars, trVars, llVars, pcVars, bftVars, mkVars, vbVars, detVars, pfVars, cmVars, ovVars, sbVars, qiVars, qtVars, fhVars, epVars, ctVars>>

UpdateHighestQc(qc) ==
    /\ SetVC(update_highest_qc(VCState, qc))
    /\ vc_ret' = Ret("update_highest_qc", None, <<>>, <<>>)
    /\ UNCHANGED <<hqVars, vtVars, trVars, llVars, pcVars, bftVars, mkVars, vbVars, detVars, pfVars, cmVars, ovVars, sbVars, qiVars, qtVars, fhVars, epVars, ctVars>>

ResetTimeout(height) ==
    /\ SetVC(reset_timeout(VCState, height))
    /\ vc_ret' = Ret("reset_timeout", None, <<>>, <<>>)
    /\ UNCHANGED <<hqVars, vtVars, trVars, llVars, pcVars, bftVars, mkVars, vbVars, detVars, pfVars, cmVars, ovVars, sbVars, qiVars, qtVars, fhVars, epVars, ctVars>>

OnViewChangeTimer ==
    /\ current_round < MaxRound
    /\ LET r == on_view_change_timer(VCState)
       IN /\ SetVC(r.s)
          /\ vc_ret' = Ret("on_view_change_timer", None, r.actions, <<>>)
    /\ UNCHANGED <<hqVars, vtVars, trVars, llVars, pcVars, bftVars, mkVars, vbVars, detVars, pfVars, cmVars, ovVars, sbVars, qiVars, qtVars, fhVars, epVars, ctVars>>

CreateViewChangeVote ==
    /\ current_round < MaxRound
    /\ LET r == create_view_change_vote(VCState)
       IN /\ SetVC(r.s)
          /\ vc_ret' = Ret("create_view_change_vote", r.vote, <<>>, <<>>)
    /\ UNCHANGED <<hqVars, vtVars, trVars, llVars, pcVars, bftVars, mkVars, vbVars, detVars, pfVars, cmVars, ovVars, sbVars, qiVars, qtVars, fhVars, epVars, ctVars>>

AddViewChangeVote(vote) ==
    /\ LET r == add_view_change_vote(VCState, vote)
       IN /\ StoredVotes(r.s.vote_collector) <= MaxStoredVotes
          /\ SetVC(r.s)
          /\ vc_ret' = Ret("add_view_change_vote", r.result, <<>>, r.log)
    /\ UNCHANGED <<hqVars, vtVars, trVars, llVars, pcVars, bftVars, mkVars, vbVars, detVars, pfVars, cmVars, ovVars, sbVars, qiVars, qtVars, fhVars, epVars, ctVars>>

\* The caller applies the quorum the last add_view_change_vote reported.
ApplyViewChange ==
    /\ vc_ret.op = "add_view_change_vote"
    /\ vc_ret.result # None
    /\ LET key == Unwrap(vc_ret.result)
           r == apply_view_change(VCState, key[1], key[2])
       IN /\ SetVC(r.s)
          /\ vc_ret' = Ret("apply_view_change", None, r.actions, <<>>)
    /\ UNCHANGED <<hqVars, vtVars, trVars, llVars, pcVars, bftVars, mkVars, vbVars, detVars, pfVars, cmVars, ovVars, sbVars, qiVars, qtVars, fhVars, epVars, ctVars>>

OnViewChangeCertificate(cert) ==
    /\ LET r == on_view_change_certificate(VCState, cert)
       IN /\ SetVC(r.s)
          /\ vc_ret' = Ret("on_view_change_certificate", None, r.actions, <<>>)
    /\ UNCHANGED <<hqVars, vtVars, trVars, llVars, pcVars, bftVars, mkVars, vbVars, detVars, pfVars, cmVars, ovVars, sbVars, qiVars, qtVars, fhVars, epVars, ctVars>>

\* Votes arriving between commits: collection, quorum, and the view change
\* the quorum triggers.
NextVotes ==
    \/ \E h \in Heights : ResetTimeout(h)
    \/ \E vote \in VoteInputs : AddViewChangeVote(vote)
    \/ ApplyViewChange

\* The timer path and certificates arriving from peers.
NextCert ==
    \/ \E t \in 0 .. MaxTime : SetTime(t)
    \/ \E qc \in {RealQC, RealQC2} : UpdateHighestQc(qc)
    \/ \E h \in Heights : ResetTimeout(h)
    \/ OnViewChangeTimer
    \/ CreateViewChangeVote
    \/ \E cert \in CertificateInputs : OnViewChangeCertificate(cert)

(***************************************************************************)
(* has_quorum applied to drawn powers.                                     *)
(***************************************************************************)
CheckQuorum(voted, total) ==
    /\ hq_voted' = voted
    /\ hq_total' = total
    /\ hq_result' = has_quorum(voted, total)
    /\ UNCHANGED <<vcVars, vtVars, trVars, llVars, pcVars, bftVars, mkVars, vbVars, detVars, pfVars, cmVars, ovVars, sbVars, qiVars, qtVars, fhVars, epVars, ctVars>>

NextHQ == \E voted \in 0 .. MaxPower, total \in 0 .. MaxPower : CheckQuorum(voted, total)


(***************************************************************************)
(* VoteTracker: execution votes of one transaction grouped by state root.  *)
(* A vote is its state root and its validator; the caller passes the       *)
(* validator's voting power along with the vote.                           *)
(***************************************************************************)
StateRoots == 1 .. NumStateRoots

StateVotes == [state_root : StateRoots, validator : CommitteeIds]

\* Topology::quorum_threshold_for_shard, the quorum the tracker is built with.
quorum_threshold == (total_voting_power * 2) \div 3 + 1

VTState == [votes_by_root |-> votes_by_root, power_by_root |-> power_by_root]

\* VoteTracker::add_vote.
add_vote(t, vote, power) ==
    LET root == vote.state_root
        votes == IF root \in DOMAIN t.votes_by_root THEN t.votes_by_root[root] ELSE <<>>
        held == IF root \in DOMAIN t.power_by_root THEN t.power_by_root[root] ELSE 0
    IN [votes_by_root |-> (root :> Append(votes, vote)) @@ t.votes_by_root,
        power_by_root |-> (root :> held + power) @@ t.power_by_root]

\* VoteTracker::check_quorum with the powers of all state roots added up
\* before the comparison.
check_quorum_combined(t) ==
    LET total == SumOver(DOMAIN t.power_by_root, t.power_by_root)
        reached == {root \in DOMAIN t.power_by_root : total >= quorum_threshold}
    IN IF reached = {} THEN None
       ELSE LET root == CHOOSE r \in reached : \A q \in reached : r <= q
            IN Some(<<root, t.votes_by_root[root], t.power_by_root[root]>>)

\* VoteTracker::check_quorum: the first root, in key order, whose power
\* reaches the quorum.
check_quorum(t) ==
    LET reached == {root \in DOMAIN t.power_by_root :
                        t.power_by_root[root] >= quorum_threshold}
    IN IF reached = {} THEN None
       ELSE LET root == CHOOSE r \in reached : \A q \in reached : r <= q
            IN Some(<<root, t.votes_by_root[root], t.power_by_root[root]>>)

\* VoteTracker::new.
InitVT ==
    /\ votes_by_root = <<>>
    /\ power_by_root = <<>>
    /\ vt_ret = [op |-> "new", result |-> None]

TrackedVotes == SumOver(DOMAIN votes_by_root,
                        [r \in DOMAIN votes_by_root |-> Len(votes_by_root[r])])

VTAddVote(vote) ==
    /\ TrackedVotes < MaxTrackedVotes
    /\ LET t == add_vote(VTState, vote, voting_power(vote.validator))
       IN /\ votes_by_root' = t.votes_by_root
          /\ power_by_root' = t.power_by_root
    /\ vt_ret' = [op |-> "add_vote", result |-> None]
    /\ UNCHANGED <<hqVars, vcVars, trVars, llVars, pcVars, bftVars, mkVars, vbVars, detVars, pfVars, cmVars, ovVars, sbVars, qiVars, qtVars, fhVars, epVars, ctVars>>

VTCheckQuorum ==
    /\ vt_ret' = [op |-> "check_quorum", result |-> check_quorum(VTState)]
    /\ UNCHANGED <<votes_by_root, power_by_root>>
    /\ UNCHANGED <<hqVars, vcVars, trVars, llVars, pcVars, bftVars, mkVars, vbVars, detVars, pfVars, cmVars, ovVars, sbVars, qiVars, qtVars, fhVars, epVars, ctVars>>

NextVT ==
    \/ \E vote \in StateVotes : VTAddVote(vote)
    \/ VTCheckQuorum

(***************************************************************************)
(* Transaction hashes: HashLen bytes, ordered as the derived Ord of the    *)
(* byte array orders them.                                                 *)
(***************************************************************************)
TxHashes == [1 .. HashLen -> 0 .. MaxByte]

\* Ord for Hash as it would be if the bytes were compared from the last one.
hash_greater_from_last_byte(a, b) ==
    \E i \in 1 .. HashLen :
        /\ a[i] > b[i]
        /\ \A j \in (i + 1) .. HashLen : a[j] = b[j]

\* #[derive(PartialOrd, Ord)] on Hash([u8; 32]): lexicographic on the bytes.
hash_greater(a, b) ==
    \E i \in 1 .. HashLen :
        /\ a[i] > b[i]
        /\ \A j \in 1 .. (i - 1) : a[j] = b[j]

(***************************************************************************)
(* CommittedCrossShardTracker: tx -> shards it needs provisions from, and  *)
(* the reverse index shard -> txs that need provisions from it.            *)
(***************************************************************************)
ShardIds == 0 .. NumShards - 1

TRState == [txs_needing_shards |-> txs_needing_shards,
            shards_needed_by |-> shards_needed_by]

\* CommittedCrossShardTracker::new.
tracker_new == [txs_needing_shards |-> <<>>, shards_needed_by |-> <<>>]

\* CommittedCrossShardTracker::add.
tracker_add(t, tx_hash, shards) ==
    LET touched == DOMAIN t.shards_needed_by \cup shards
    IN [txs_needing_shards |-> (tx_hash :> shards) @@ t.txs_needing_shards,
        shards_needed_by |->
            [shard \in touched |->
                (IF shard \in DOMAIN t.shards_needed_by
                 THEN t.shards_needed_by[shard] ELSE {})
                \cup (IF shard \in shards THEN {tx_hash} ELSE {})]]

\* CommittedCrossShardTracker::remove.
tracker_remove(t, tx_hash) ==
    IF tx_hash \notin DOMAIN t.txs_needing_shards THEN t
    ELSE LET shards == t.txs_needing_shards[tx_hash]
             cleaned == [shard \in DOMAIN t.shards_needed_by |->
                            IF shard \in shards
                            THEN t.shards_needed_by[shard] \ {tx_hash}
                            ELSE t.shards_needed_by[shard]]
             kept == {shard \in DOMAIN cleaned :
                         ~(shard \in shards /\ cleaned[shard] = {})}
         IN [txs_needing_shards |->
                Restrict(t.txs_needing_shards, DOMAIN t.txs_needing_shards \ {tx_hash}),
             shards_needed_by |-> Restrict(cleaned, kept)]

\* CommittedCrossShardTracker::txs_needing_shard.
txs_needing_shard(t, shard) ==
    IF shard \in DOMAIN t.shards_needed_by THEN Some(t.shards_needed_by[shard]) ELSE None

InitTR ==
    /\ txs_needing_shards = tracker_new.txs_needing_shards
    /\ shards_needed_by = tracker_new.shards_needed_by

TrackerAdd(tx_hash, shards) ==
    /\ LET t == tracker_add(TRState, tx_hash, shards)
       IN /\ txs_needing_shards' = t.txs_needing_shards
          /\ shards_needed_by' = t.shards_needed_by
    /\ UNCHANGED <<hqVars, vcVars, vtVars, llVars, pcVars, bftVars, mkVars, vbVars, detVars, pfVars, cmVars, ovVars, sbVars, qiVars, qtVars, fhVars, epVars, ctVars>>

TrackerRemove(tx_hash) ==
    /\ LET t == tracker_remove(TRState, tx_hash)
       IN /\ txs_needing_shards' = t.txs_needing_shards
          /\ shards_needed_by' = t.shards_needed_by
    /\ UNCHANGED <<hqVars, vcVars, vtVars, llVars, pcVars, bftVars, mkVars, vbVars, detVars, pfVars, cmVars, ovVars, sbVars, qiVars, qtVars, fhVars, epVars, ctVars>>

NextTR ==
    \/ \E tx_hash \in TxHashes, shards \in SUBSET ShardIds : TrackerAdd(tx_hash, shards)
    \/ \E tx_hash \in TxHashes : TrackerRemove(tx_hash)

(***************************************************************************)
(* ProvisionTracker: the (tx, source shard) pairs a provision was seen for. *)
(***************************************************************************)
\* ProvisionTracker::add: the new set, and whether the pair is new.
provision_tracker_add(seen, tx_hash, source_shard) ==
    [seen |-> seen \cup {<<tx_hash, source_shard>>},
     first |-> <<tx_hash, source_shard>> \notin seen]

\* ProvisionTracker::txs_with_provision_from.
txs_with_provision_from(seen, source_shard) ==
    {pair[1] : pair \in {q \in seen : q[2] = source_shard}}

\* ProvisionTracker::remove_tx.
provision_tracker_remove_tx(seen, tx_hash) == {pair \in seen : pair[1] # tx_hash}

(***************************************************************************)
(* Livelock detector.  Every shard runs one over its own trackers.  A      *)
(* shard that commits a cross-shard transaction sends its provisions to    *)
(* the other shards; ll_msgs holds the provisions that have reached        *)
(* verified quorum at their target, which may deliver them more than once. *)
(***************************************************************************)
\* The loser of a bidirectional cycle: the transaction with the larger hash.
cycle_loser(tx_a, tx_b) == IF hash_greater(tx_a, tx_b) THEN tx_a ELSE tx_b

cycle_winner(tx_a, tx_b) == IF hash_greater(tx_a, tx_b) THEN tx_b ELSE tx_a

RECURSIVE tracker_remove_all(_, _)
tracker_remove_all(t, txs) ==
    IF txs = {} THEN t
    ELSE LET tx == CHOOSE x \in txs : TRUE
         IN tracker_remove_all(tracker_remove(t, tx), txs \ {tx})

\* The state of the detector of one shard.
LLState(shard) ==
    [committed |-> ll_committed[shard],
     provisions |-> ll_provisions[shard],
     remote |-> ll_remote[shard],
     deferred |-> ll_deferred[shard],
     decisions |-> ll_decisions[shard]]

\* Resolution of the cycles between the local transactions in locals and the
\* remote transactions in remotes: every pair is decided by hash, and a
\* local loser is deferred and leaves the trackers.
resolve_cycles(d, locals, remotes) ==
    LET pairs == locals \X remotes
        losers == {tx \in locals : \E r \in remotes : hash_greater(tx, r)}
        RECURSIVE forget(_, _)
        forget(seen, txs) ==
            IF txs = {} THEN seen
            ELSE LET tx == CHOOSE x \in txs : TRUE
                 IN forget(provision_tracker_remove_tx(seen, tx), txs \ {tx})
    IN [d EXCEPT
          !.decisions = @ \cup {[loser |-> cycle_loser(pr[1], pr[2]),
                                 winner |-> cycle_winner(pr[1], pr[2])] : pr \in pairs},
          !.deferred = @ \cup losers,
          !.committed = tracker_remove_all(@, losers),
          !.provisions = forget(@, losers)]

\* A block of the local shard commits tx, which needs provisions from needs:
\* the transaction is tracked, and checked against the remote transactions
\* whose provisions already arrived from those shards and that need the
\* local shard.
on_block_committed(d, local, tx, needs) ==
    LET tracked == [d EXCEPT !.committed = tracker_add(@, tx, needs)]
        remotes == {r \in UNION {txs_with_provision_from(d.provisions, s) : s \in needs} :
                        r \in DOMAIN d.remote /\ local \in d.remote[r]}
    IN resolve_cycles(tracked, {tx}, remotes)

\* ProvisionQuorumReached{tx_r, source}: the first one for the pair triggers
\* the cycle check of tx_r against the local transactions that need source.
on_provision_quorum_reached(d, local, tx_r, source, needs_r) ==
    LET added == provision_tracker_add(d.provisions, tx_r, source)
        seen == [d EXCEPT !.provisions = added.seen,
                          !.remote = (tx_r :> needs_r) @@ @]
        needing == txs_needing_shard(d.committed, source)
        locals == IF needing = None THEN {} ELSE Unwrap(needing)
    IN IF ~added.first THEN seen
       ELSE IF local \notin needs_r THEN seen
       ELSE resolve_cycles(seen, locals, {tx_r})

SetLL(shard, d) ==
    /\ ll_committed' = [ll_committed EXCEPT ![shard] = d.committed]
    /\ ll_provisions' = [ll_provisions EXCEPT ![shard] = d.provisions]
    /\ ll_remote' = [ll_remote EXCEPT ![shard] = d.remote]
    /\ ll_deferred' = [ll_deferred EXCEPT ![shard] = d.deferred]
    /\ ll_decisions' = [ll_decisions EXCEPT ![shard] = d.decisions]

InitLL ==
    /\ ll_committed = [shard \in ShardIds |-> tracker_new]
    /\ ll_provisions = [shard \in ShardIds |-> {}]
    /\ ll_remote = [shard \in ShardIds |-> <<>>]
    /\ ll_deferred = [shard \in ShardIds |-> {}]
    /\ ll_decisions = [shard \in ShardIds |-> {}]
    /\ ll_home = <<>>
    /\ ll_msgs = {}

\* The provisions one shard may send another.
ProvisionMessages ==
    [tx : TxHashes, source : ShardIds, target : ShardIds, needs : SUBSET ShardIds]

\* A transaction is committed once, by the shard it is local to.
LLBlockCommitted(local, tx, needs) ==
    /\ tx \notin DOMAIN ll_home
    /\ SetLL(local, on_block_committed(LLState(local), local, tx, needs))
    /\ ll_home' = (tx :> local) @@ ll_home
    /\ ll_msgs' = ll_msgs \cup {[tx |-> tx, source |-> local, target |-> s, needs |-> needs] :
                                    s \in ShardIds \ {local}}
    /\ UNCHANGED <<hqVars, vcVars, vtVars, trVars, pcVars, bftVars, mkVars, vbVars, detVars, pfVars, cmVars, ovVars, sbVars, qiVars, qtVars, fhVars, epVars, ctVars>>

LLProvisionQuorumReached(m) ==
    /\ m \in ll_msgs
    /\ SetLL(m.target,
             on_provision_quorum_reached(LLState(m.target), m.target, m.tx, m.source, m.needs))
    /\ UNCHANGED <<ll_home, ll_msgs>>
    /\ UNCHANGED <<hqVars, vcVars, vtVars, trVars, pcVars, bftVars, mkVars, vbVars, detVars, pfVars, cmVars, ovVars, sbVars, qiVars, qtVars, fhVars, epVars, ctVars>>

NextLL ==
    \/ \E local \in ShardIds, tx \in TxHashes :
          \E needs \in SUBSET (ShardIds \ {local}) : LLBlockCommitted(local, tx, needs)
    \/ \E m \in ProvisionMessages : LLProvisionQuorumReached(m)

(***************************************************************************)
(* Provision coordinator of the local shard (shard 0).  Provisions come    *)
(* from the validators of source shard 1, whose committee has the shape of *)
(* the local one; the runner verifies the signature of a queued provision  *)
(* and reports the outcome.                                                *)
(***************************************************************************)
\* signing::state_provision_message.
state_provision_message(tx_hash, target_shard, source_shard, block_height, entries) ==
    <<"STATE_PROVISION", tx_hash, target_shard, source_shard, block_height, entries>>

\* StateProvision::signing_message.
signing_message(provision) ==
    state_provision_message(provision.transaction_hash, provision.target_shard,
                            provision.source_shard, provision.block_height,
                            provision.entries)

\* Topology::has_quorum_for_shard.
has_quorum_for_shard(shard, power) == has_quorum(power, total_voting_power)

\* The transactions provisions are received for.
ProvisionTxs == {tx \in TxHashes : tx[1] = 0}

\* A provision before it is signed.
ProvisionBody(tx, validator) ==
    [transaction_hash |-> tx, target_shard |-> 0, source_shard |-> 1,
     block_height |-> 1, entries |-> <<>>, validator_id |-> validator]

\* Provisions off the wire: signed by their validator, or carrying the
\* signature of another key.
ProvisionInputs ==
    UNION {{[transaction_hash |-> tx, target_shard |-> 0, source_shard |-> 1,
             block_height |-> 1, entries |-> <<>>, validator_id |-> v,
             signature |-> sg] :
                sg \in {sign(v, signing_message(ProvisionBody(tx, v))),
                        sign(UnknownValidator, signing_message(ProvisionBody(tx, v)))}} :
           tx \in ProvisionTxs, v \in CommitteeIds}

\* The runner's signature check of a provision.
verify_provision_signature(provision) ==
    /\ public_key(provision.validator_id) # None
    /\ verify({Unwrap(public_key(provision.validator_id))},
              signing_message(provision), provision.signature)

PCState ==
    [registered |-> pc_registered, pending |-> pc_pending,
     verified |-> pc_verified, emitted |-> pc_emitted]

\* The power of the validators with a stored provision for (tx, source shard).
verified_power(verified, tx, source_shard) ==
    calculate_voting_power({p.validator_id :
        p \in {q \in verified : q.transaction_hash = tx /\ q.source_shard = source_shard}})

\* StateProvisionReceived: register the transaction if unknown and queue
\* the provision for signature verification.
on_state_provision_received(c, provision) ==
    [s |-> [c EXCEPT !.registered = @ \cup {provision.transaction_hash},
                     !.pending = @ \cup {provision}],
     actions |-> <<[type |-> "VerifyProvisionSignature", provision |-> provision]>>]

\* ProvisionSignatureVerified: a provision that failed verification is
\* dropped; a verified one is stored and the source shard's quorum checked.
on_provision_signature_verified(c, provision, valid) ==
    LET unqueued == [c EXCEPT !.pending = @ \ {provision}]
        tx == provision.transaction_hash
        source == provision.source_shard
        stored == [unqueued EXCEPT !.verified = @ \cup {provision}]
    IN IF ~valid THEN [s |-> unqueued, actions |-> <<>>]
       ELSE IF has_quorum_for_shard(source, verified_power(stored.verified, tx, source))
               /\ <<tx, source>> \notin c.emitted
       THEN [s |-> [stored EXCEPT !.emitted = @ \cup {<<tx, source>>}],
             actions |-> <<[type |-> "ProvisionQuorumReached",
                            tx |-> tx, source_shard |-> source]>>]
       ELSE [s |-> stored, actions |-> <<>>]

SetPC(c) ==
    /\ pc_registered' = c.registered
    /\ pc_pending' = c.pending
    /\ pc_verified' = c.verified
    /\ pc_emitted' = c.emitted

InitPC ==
    /\ pc_registered = {}
    /\ pc_pending = {}
    /\ pc_verified = {}
    /\ pc_emitted = {}
    /\ pc_ret = [op |-> "new", actions |-> <<>>]

StateProvisionReceived(provision) ==
    /\ Cardinality(pc_pending \cup {provision}) <= MaxPending
    /\ LET r == on_state_provision_received(PCState, provision)
       IN /\ SetPC(r.s)
          /\ pc_ret' = [op |-> "StateProvisionReceived", actions |-> r.actions]
    /\ UNCHANGED <<hqVars, vcVars, vtVars, trVars, llVars, bftVars, mkVars, vbVars, detVars, pfVars, cmVars, ovVars, sbVars, qiVars, qtVars, fhVars, epVars, ctVars>>

\* The runner verifies a queued provision and reports the outcome.
ProvisionSignatureVerified(provision) ==
    /\ provision \in pc_pending
    /\ LET r == on_provision_signature_verified(PCState, provision,
                    verify_provision_signature(provision))
       IN /\ SetPC(r.s)
          /\ pc_ret' = [op |-> "ProvisionSignatureVerified", actions |-> r.actions]
    /\ UNCHANGED <<hqVars, vcVars, vtVars, trVars, llVars, bftVars, mkVars, vbVars, detVars, pfVars, cmVars, ovVars, sbVars, qiVars, qtVars, fhVars, epVars, ctVars>>

NextPC ==
    \/ \E provision \in ProvisionInputs : StateProvisionReceived(provision)
    \/ \E provision \in ProvisionInputs : ProvisionSignatureVerified(provision)

(***************************************************************************)
(* BFT commit pipeline.  A block is the path of branch choices from        *)
(* genesis, so its height is its length and its parent its prefix.  The    *)
(* last validator of the committee is Byzantine: it signs a vote for every *)
(* block, and any block may be proposed (equivocating proposers, proposals *)
(* of later rounds).  The honest validators vote and observe the quorum    *)
(* certificates that the votes make possible, in any order.                *)
(***************************************************************************)
Byzantine == {NumValidators - 1}

Honest == CommitteeIds \ Byzantine

RECURSIVE BlocksAt(_)
BlocksAt(h) ==
    IF h = 0 THEN {<<>>}
    ELSE {Append(b, t) : b \in BlocksAt(h - 1), t \in 1 .. NumBranches}

Blocks == UNION {BlocksAt(h) : h \in 1 .. BftMaxHeight}

block_height(b) == Len(b)

block_parent(b) == SubSeq(b, 1, Len(b) - 1)

\* The validators whose votes for a block exist.
voters_for(votes, b) == {n \in Honest : b \in votes[n]} \cup Byzantine

\* QC formation: the votes for the block hold more than two thirds.
qc_formed(votes, b) ==
    has_quorum(calculate_voting_power(voters_for(votes, b)), total_voting_power)

\* The height an honest validator expects next: one above its highest
\* adopted certificate.
expected_height(pinned) ==
    IF DOMAIN pinned = {} THEN 1
    ELSE (CHOOSE h \in DOMAIN pinned : \A k \in DOMAIN pinned : k <= h) + 1

\* Vote validation: the block is at the expected height and its parent_qc is
\* the certificate the validator adopted for the parent's height.
vote_valid(pinned, b) ==
    /\ block_height(b) = expected_height(pinned)
    /\ IF block_height(b) = 1 THEN TRUE
       ELSE pinned[block_height(b) - 1] = block_parent(b)

\* The certificate of b is adopted if it is the first one observed for its
\* height and it extends the certificate adopted for the height below.
adopt_qc(pinned, b) ==
    IF /\ block_height(b) \notin DOMAIN pinned
       /\ (block_height(b) = 1
           \/ (block_height(b) - 1 \in DOMAIN pinned
               /\ pinned[block_height(b) - 1] = block_parent(b)))
    THEN (block_height(b) :> b) @@ pinned
    ELSE pinned

\* 2-chain rule: a certificate for b commits the block its parent_qc
\* certifies, and with it that block's ancestors.
committed_by(b) == {SubSeq(b, 1, k) : k \in 1 .. (Len(b) - 1)}

InitBFT ==
    /\ bft_votes = [n \in Honest |-> {}]
    /\ bft_pinned = [n \in Honest |-> <<>>]
    /\ bft_committed = [n \in Honest |-> {}]

\* BlockHeaderReceived at an honest validator.
BftVote(n, b) ==
    /\ b \notin bft_votes[n]
    /\ vote_valid(bft_pinned[n], b)
    /\ bft_votes' = [bft_votes EXCEPT ![n] = @ \cup {b}]
    /\ UNCHANGED <<bft_pinned, bft_committed>>
    /\ UNCHANGED <<hqVars, vcVars, vtVars, trVars, llVars, pcVars, mkVars, vbVars, detVars, pfVars, cmVars, ovVars, sbVars, qiVars, qtVars, fhVars, epVars, ctVars>>

\* QuorumCertificateFormed, or a certificate received inside a later header.
BftObserveQC(n, b) ==
    /\ qc_formed(bft_votes, b)
    /\ bft_pinned' = [bft_pinned EXCEPT ![n] = adopt_qc(@, b)]
    /\ bft_committed' = [bft_committed EXCEPT ![n] = @ \cup committed_by(b)]
    /\ UNCHANGED bft_votes
    /\ UNCHANGED <<hqVars, vcVars, vtVars, trVars, llVars, pcVars, mkVars, vbVars, detVars, pfVars, cmVars, ovVars, sbVars, qiVars, qtVars, fhVars, epVars, ctVars>>

NextBFT ==
    \/ \E n \in Honest, b \in Blocks : BftVote(n, b)
    \/ \E n \in Honest, b \in Blocks : BftObserveQC(n, b)

(***************************************************************************)
(* Merkle tree of the vote batches (crates/types/src/merkle.rs).  Blake3   *)
(* is an injective constructor over its input: two hashes are equal only   *)
(* if they were computed from equal data.                                  *)
(***************************************************************************)
\* Hash::ZERO as a byte array.
ZERO == [i \in 1 .. HashLen |-> 0]

\* hash_pair: Blake3 over left || right.
hash_pair(left, right) == <<"blake3", left, right>>

\* usize::next_power_of_two.
RECURSIVE next_power_of_two_from(_, _)
next_power_of_two_from(p, n) ==
    IF p >= n THEN p ELSE next_power_of_two_from(2 * p, n)

next_power_of_two(n) == next_power_of_two_from(1, n)

\* usize::trailing_zeros of a positive number.
RECURSIVE trailing_zeros(_)
trailing_zeros(n) == IF n % 2 = 1 THEN 0 ELSE 1 + trailing_zeros(n \div 2)

\* The tree storage after the leaves were copied in: 2n - 1 slots, slot p of
\* the code at position p + 1, the slots behind the leaves zeroed.
tree_with_leaves(leaves, n) ==
    [p \in 1 .. (2 * n - 1) |-> IF p <= Len(leaves) THEN leaves[p] ELSE ZERO]

\* The bottom-up loop of build_merkle_tree_with_proofs, `remaining` levels
\* still to fill.
RECURSIVE build_levels(_, _, _, _)
build_levels(tree, level_start, level_size, remaining) ==
    IF remaining = 0 THEN tree
    ELSE LET next_level_start == level_start + level_size
             next_level_size == level_size \div 2
             filled ==
                 [p \in DOMAIN tree |->
                     IF /\ p - 1 >= next_level_start
                        /\ p - 1 < next_level_start + next_level_size
                     THEN LET i == p - 1 - next_level_start
                          IN hash_pair(tree[level_start + 2 * i + 1],
                                       tree[level_start + 2 * i + 2])
                     ELSE tree[p]]
         IN build_levels(filled, next_level_start, next_level_size, remaining - 1)

\* The sibling path of one leaf, from the leaf level upwards.
RECURSIVE proof_siblings(_, _, _, _, _)
proof_siblings(tree, level_start, level_size, idx, remaining) ==
    IF remaining = 0 THEN <<>>
    ELSE LET sibling_idx == IF idx % 2 = 0 THEN idx + 1 ELSE idx - 1
         IN <<tree[level_start + sibling_idx + 1]>>
            \o proof_siblings(tree, level_start + level_size, level_size \div 2,
                              idx \div 2, remaining - 1)

\* build_merkle_tree_with_proofs for a non-empty list of leaves (the code
\* panics on an empty one): the root and one MerkleProof per leaf.
build_merkle_tree_with_proofs(leaves) ==
    IF Len(leaves) = 1
    THEN [root |-> leaves[1],
          proofs |-> <<[leaf_index |-> 0, siblings |-> <<>>]>>]
    ELSE LET n == next_power_of_two(Len(leaves))
             depth == trailing_zeros(n)
             tree == build_levels(tree_with_leaves(leaves, n), 0, n, depth)
         IN [root |-> tree[Len(tree)],
             proofs |-> [k \in 1 .. Len(leaves) |->
                            [leaf_index |-> k - 1,
                             siblings |-> proof_siblings(tree, 0, n, k - 1, depth)]]]

\* The loop of MerkleProof::verify.
RECURSIVE verify_path(_, _, _)
verify_path(current, index, siblings) ==
    IF siblings = <<>> THEN current
    ELSE verify_path(IF index % 2 = 0
                     THEN hash_pair(current, Head(siblings))
                     ELSE hash_pair(Head(siblings), current),
                     index \div 2, Tail(siblings))

\* The loop of MerkleProof::verify with the leaf taken for a left child at
\* every level.
RECURSIVE verify_path_left_only(_, _, _)
verify_path_left_only(current, index, siblings) ==
    IF siblings = <<>> THEN current
    ELSE verify_path_left_only(hash_pair(current, Head(siblings)),
                               index \div 2, Tail(siblings))

\* MerkleProof::verify that never looks at the leaf index.
merkle_proof_verify_left_only(proof, leaf_hash, root) ==
    verify_path_left_only(leaf_hash, proof.leaf_index, proof.siblings) = root

\* MerkleProof::verify.
merkle_proof_verify(proof, leaf_hash, root) ==
    verify_path(leaf_hash, proof.leaf_index, proof.siblings) = root

\* MerkleProof::depth.
proof_depth(proof) == Len(proof.siblings)

\* The caller collects the leaves of the next tree.
InitMK ==
    /\ mk_leaves = <<>>
    /\ mk_ret = None
    /\ mk_checked = None

AddLeaf(leaf_hash) ==
    /\ Len(mk_leaves) < MaxLeaves
    /\ mk_leaves' = Append(mk_leaves, leaf_hash)
    /\ mk_ret' = None
    /\ mk_checked' = None
    /\ UNCHANGED <<hqVars, vcVars, vtVars, trVars, llVars, pcVars, bftVars, vbVars, detVars, pfVars, cmVars, ovVars, sbVars, qiVars, qtVars, fhVars, epVars, ctVars>>

BuildMerkleTree ==
    /\ mk_leaves # <<>>
    /\ mk_ret' = Some(build_merkle_tree_with_proofs(mk_leaves))
    /\ mk_checked' = None
    /\ UNCHANGED mk_leaves
    /\ UNCHANGED <<hqVars, vcVars, vtVars, trVars, llVars, pcVars, bftVars, vbVars, detVars, pfVars, cmVars, ovVars, sbVars, qiVars, qtVars, fhVars, epVars, ctVars>>

\* A holder of proof k checks a leaf against the root.
VerifyMerkleProof(k, leaf_hash) ==
    /\ mk_ret # None
    /\ k \in DOMAIN Unwrap(mk_ret).proofs
    /\ mk_checked' = Some([index |-> k, leaf |-> leaf_hash,
                           ok |-> merkle_proof_verify(Unwrap(mk_ret).proofs[k],
                                                      leaf_hash, Unwrap(mk_ret).root)])
    /\ UNCHANGED <<mk_leaves, mk_ret>>
    /\ UNCHANGED <<hqVars, vcVars, vtVars, trVars, llVars, pcVars, bftVars, vbVars, detVars, pfVars, cmVars, ovVars, sbVars, qiVars, qtVars, fhVars, epVars, ctVars>>

NextMK ==
    \/ \E leaf_hash \in TxHashes : AddLeaf(leaf_hash)
    \/ BuildMerkleTree
    \/ \E k \in 1 .. MaxLeaves, leaf_hash \in TxHashes : VerifyMerkleProof(k, leaf_hash)

(***************************************************************************)
(* VoteBatcher (crates/execution/src/batcher.rs): pending execution votes  *)
(* of the local validator, signed once per batch over a Merkle root.       *)
(***************************************************************************)
\* What an execution can report: success with one state root, failure with
\* another.
ExecutionOutcomes ==
    {[state_root |-> 1, success |-> TRUE], [state_root |-> NumStateRoots, success |-> FALSE]}

\* PendingVote.
PendingVotes ==
    {[tx_hash |-> tx, state_root |-> o.state_root, success |-> o.success] :
        tx \in TxHashes, o \in ExecutionOutcomes}

\* The batcher of validator LocalValidator in shard 0, built by
\* with_latent_config.
batcher_shard == 0

batcher_validator_id == LocalValidator

VBState ==
    [block_batch |-> block_batch,
     latent_pending |-> latent_pending,
     latent_last_flush |-> latent_last_flush,
     latent_flush_interval |-> latent_flush_interval,
     latent_flush_threshold |-> latent_flush_threshold]

\* VoteBatcher::with_latent_config.
with_latent_config(interval, threshold) ==
    [block_batch |-> None, latent_pending |-> <<>>, latent_last_flush |-> 0,
     latent_flush_interval |-> interval,
     latent_flush_threshold |-> threshold]

\* VoteBatcher::new: the default configuration flushes a latent vote at once.
vote_batcher_new == with_latent_config(1, 1)

\* The batcher the runs start from, made by with_latent_config.
batcher_new == with_latent_config(FlushInterval, FlushThreshold)

\* Duration::saturating_sub.
saturating_sub(a, b) == IF a >= b THEN a - b ELSE 0

\* vote_leaf_hash: Blake3 over tx_hash || state_root || shard || success byte.
vote_leaf_hash(tx_hash, state_root, shard_group_id, success) ==
    <<"blake3", tx_hash, state_root, shard_group_id, IF success THEN 1 ELSE 0>>

\* batched_vote_message: a batch without block height is signed as height 0.
batched_vote_message(shard_group, batch_height, vote_merkle_root) ==
    <<"BATCH_STATE_VOTE", shard_group,
      IF batch_height = None THEN 0 ELSE Unwrap(batch_height),
      vote_merkle_root>>

\* The place of a vote in a list sorted by tx_hash: behind every vote whose
\* tx_hash is not greater (sort_by is a stable sort).
insert_by_tx_hash(sorted, vote) ==
    LET k == Cardinality({i \in DOMAIN sorted :
                             ~hash_greater(sorted[i].tx_hash, vote.tx_hash)})
    IN SubSeq(sorted, 1, k) \o <<vote>> \o SubSeq(sorted, k + 1, Len(sorted))

\* votes.sort_by(|a, b| a.tx_hash.cmp(&b.tx_hash)).
RECURSIVE sort_by_tx_hash(_)
sort_by_tx_hash(votes) ==
    IF votes = <<>> THEN <<>>
    ELSE insert_by_tx_hash(sort_by_tx_hash(SubSeq(votes, 1, Len(votes) - 1)),
                           votes[Len(votes)])

\* The StateVoteBlock built from a pending vote, the tree and the signature.
state_vote_block(vote, proof, merkle_root, signature, batch_height) ==
    [transaction_hash |-> vote.tx_hash,
     shard_group_id |-> batcher_shard,
     state_root |-> vote.state_root,
     success |-> vote.success,
     validator |-> batcher_validator_id,
     signature |-> signature,
     vote_merkle_root |-> merkle_root,
     vote_merkle_proof |-> proof,
     batch_block_height |-> batch_height]

\* create_batched_votes that pairs the proofs of the sorted tree with the
\* votes in the order they were added.
create_batched_votes_in_added_order(votes, batch_height) ==
    IF votes = <<>> THEN <<>>
    ELSE LET sorted == sort_by_tx_hash(votes)
             leaf_hashes == [i \in DOMAIN sorted |->
                                vote_leaf_hash(sorted[i].tx_hash, sorted[i].state_root,
                                               batcher_shard, sorted[i].success)]
             built == build_merkle_tree_with_proofs(leaf_hashes)
             signature == sign(batcher_validator_id,
                               batched_vote_message(batcher_shard, batch_height, built.root))
         IN [i \in DOMAIN votes |->
                state_vote_block(votes[i], built.proofs[i], built.root,
                                 signature, batch_height)]

\* VoteBatcher::create_batched_votes.
create_batched_votes(votes, batch_height) ==
    IF votes = <<>> THEN <<>>
    ELSE LET sorted == sort_by_tx_hash(votes)
             leaf_hashes == [i \in DOMAIN sorted |->
                                vote_leaf_hash(sorted[i].tx_hash, sorted[i].state_root,
                                               batcher_shard, sorted[i].success)]
             built == build_merkle_tree_with_proofs(leaf_hashes)
             signature == sign(batcher_validator_id,
                               batched_vote_message(batcher_shard, batch_height, built.root))
         IN [i \in DOMAIN sorted |->
                state_vote_block(sorted[i], built.proofs[i], built.root,
                                 signature, batch_height)]

\* VoteBatcher::add_block_vote.  The height of an existing batch is kept;
\* the debug assertion on the height is compiled out of a release build.
add_block_vote(b, batch_height, vote) ==
    LET batch == IF b.block_batch = None
                 THEN [block_height |-> batch_height, votes |-> <<>>]
                 ELSE Unwrap(b.block_batch)
    IN [s |-> [b EXCEPT !.block_batch =
                   Some([batch EXCEPT !.votes = Append(@, vote)])],
        out |-> <<>>]

\* flush_block as it would be if it left the batch in place.
flush_block_keeping_batch(b) ==
    IF b.block_batch = None THEN [s |-> b, out |-> <<>>]
    ELSE LET batch == Unwrap(b.block_batch)
         IN IF batch.votes = <<>> THEN [s |-> b, out |-> <<>>]
            ELSE [s |-> b,
                  out |-> create_batched_votes(batch.votes, Some(batch.block_height))]

\* VoteBatcher::flush_block.
flush_block(b) ==
    IF b.block_batch = None THEN [s |-> b, out |-> <<>>]
    ELSE LET batch == Unwrap(b.block_batch)
             taken == [b EXCEPT !.block_batch = None]
         IN IF batch.votes = <<>> THEN [s |-> taken, out |-> <<>>]
            ELSE [s |-> taken,
                  out |-> create_batched_votes(batch.votes, Some(batch.block_height))]

\* VoteBatcher::flush_latent.
flush_latent(b, at) ==
    IF b.latent_pending = <<>> THEN [s |-> b, out |-> <<>>]
    ELSE [s |-> [b EXCEPT !.latent_pending = <<>>, !.latent_last_flush = at],
          out |-> create_batched_votes(b.latent_pending, None)]

\* add_latent_vote as it would be if it flushed only once the pending count
\* exceeded the threshold.
add_latent_vote_above_threshold(b, vote, at) ==
    LET pushed == [b EXCEPT !.latent_pending = Append(@, vote)]
    IN IF \/ saturating_sub(at, pushed.latent_last_flush) > pushed.latent_flush_interval
          \/ Len(pushed.latent_pending) > pushed.latent_flush_threshold
       THEN flush_latent(pushed, at)
       ELSE [s |-> pushed, out |-> <<>>]

\* VoteBatcher::add_latent_vote.
add_latent_vote(b, vote, at) ==
    LET pushed == [b EXCEPT !.latent_pending = Append(@, vote)]
    IN IF \/ saturating_sub(at, pushed.latent_last_flush) > pushed.latent_flush_interval
          \/ Len(pushed.latent_pending) >= pushed.latent_flush_threshold
       THEN flush_latent(pushed, at)
       ELSE [s |-> pushed, out |-> <<>>]

\* VoteBatcher::should_flush_latent.
should_flush_latent(b, at) ==
    /\ b.latent_pending # <<>>
    /\ \/ saturating_sub(at, b.latent_last_flush) > b.latent_flush_interval
       \/ Len(b.latent_pending) >= b.latent_flush_threshold

\* VoteBatcher::pending_block_votes.
pending_block_votes(b) ==
    IF b.block_batch = None THEN 0 ELSE Len(Unwrap(b.block_batch).votes)

\* VoteBatcher::pending_latent_votes.
pending_latent_votes(b) == Len(b.latent_pending)

\* StateVoteBlock::leaf_hash.
leaf_hash(block) ==
    vote_leaf_hash(block.transaction_hash, block.state_root,
                   block.shard_group_id, block.success)

\* StateVoteBlock::verify_merkle_proof.
verify_merkle_proof(block) ==
    merkle_proof_verify(block.vote_merkle_proof, leaf_hash(block), block.vote_merkle_root)

\* Heights and times the caller passes to the batcher.
BatchHeights == 0 .. MaxHeight

BatchTimes == 0 .. MaxTime

SetVB(r, op) ==
    /\ block_batch' = r.s.block_batch
    /\ latent_pending' = r.s.latent_pending
    /\ latent_last_flush' = r.s.latent_last_flush
    /\ latent_flush_interval' = r.s.latent_flush_interval
    /\ latent_flush_threshold' = r.s.latent_flush_threshold
    /\ vb_ret' = [op |-> op, out |-> r.out]

InitVB ==
    /\ block_batch = batcher_new.block_batch
    /\ latent_pending = batcher_new.latent_pending
    /\ latent_last_flush = batcher_new.latent_last_flush
    /\ latent_flush_interval = batcher_new.latent_flush_interval
    /\ latent_flush_threshold = batcher_new.latent_flush_threshold
    /\ vb_ret = [op |-> "new", out |-> <<>>]

AddBlockVote(batch_height, vote) ==
    /\ pending_block_votes(VBState) + pending_latent_votes(VBState) < MaxBatch
    /\ SetVB(add_block_vote(VBState, batch_height, vote), "add_block_vote")
    /\ UNCHANGED <<hqVars, vcVars, vtVars, trVars, llVars, pcVars, bftVars, mkVars, detVars, pfVars, cmVars, ovVars, sbVars, qiVars, qtVars, fhVars, epVars, ctVars>>

AddLatentVote(vote, at) ==
    /\ pending_block_votes(VBState) + pending_latent_votes(VBState) < MaxBatch
    /\ SetVB(add_latent_vote(VBState, vote, at), "add_latent_vote")
    /\ UNCHANGED <<hqVars, vcVars, vtVars, trVars, llVars, pcVars, bftVars, mkVars, detVars, pfVars, cmVars, ovVars, sbVars, qiVars, qtVars, fhVars, epVars, ctVars>>

FlushBlock ==
    /\ SetVB(flush_block(VBState), "flush_block")
    /\ UNCHANGED <<hqVars, vcVars, vtVars, trVars, llVars, pcVars, bftVars, mkVars, detVars, pfVars, cmVars, ovVars, sbVars, qiVars, qtVars, fhVars, epVars, ctVars>>

FlushLatent(at) ==
    /\ SetVB(flush_latent(VBState, at), "flush_latent")
    /\ UNCHANGED <<hqVars, vcVars, vtVars, trVars, llVars, pcVars, bftVars, mkVars, detVars, pfVars, cmVars, ovVars, sbVars, qiVars, qtVars, fhVars, epVars, ctVars>>

NextVB ==
    \/ \E batch_height \in BatchHeights, vote \in PendingVotes :
          AddBlockVote(batch_height, vote)
    \/ \E vote \in PendingVotes, at \in BatchTimes : AddLatentVote(vote, at)
    \/ FlushBlock
    \/ \E at \in BatchTimes : FlushLatent(at)

(***************************************************************************)
(* Two copies of one state machine under the same events.  The first copy  *)
(* is the view-change state or the batcher above; the second copy runs on  *)
(* another machine, with a wall clock of its own.                          *)
(***************************************************************************)
\* set_time that takes the time from the clock of the machine it runs on.
set_time_from_wall_clock(s, t, wall_clock) == [s EXCEPT !.now = wall_clock]

\* ViewChangeState::set_time: stores the caller's time; the wall clock of
\* the machine is not read.
set_time(s, t, wall_clock) == [s EXCEPT !.now = t]

\* The events fed to the two copies of the view-change state.
DetVoteInputs ==
    {vote \in VoteInputs :
        /\ vote.new_view = 1
        /\ vote.highest_qc = GenesisQC}

DetCertificateInputs ==
    {cert \in CertificateInputs :
        /\ cert.new_view = 1
        /\ cert.highest_qc = GenesisQC
        /\ cert.signers \in {[num_validators |-> NumValidators, bits |-> b] :
                                b \in {{0}, {0, 1}}}
        /\ cert.voting_power = calculate_voting_power(cert.signers.bits)}

\* The votes fed to the two copies of the batcher.
DetPendingVotes == {vote \in PendingVotes : vote.success}

\* Both copies of the view-change state take a step.
SetDetVC(sa, sb, ret_a, ret_b) ==
    /\ det_machine' = "view_change"
    /\ SetVC(sa)
    /\ vc_ret' = ret_a
    /\ det_vc' = sb
    /\ det_vc_ret' = ret_b
    /\ UNCHANGED <<det_vb, det_vb_ret>>

\* Both copies of the batcher take a step.
SetDetVB(ra, rb, op) ==
    /\ det_machine' = "batcher"
    /\ SetVB(ra, op)
    /\ det_vb' = rb.s
    /\ det_vb_ret' = [op |-> op, out |-> rb.out]
    /\ UNCHANGED <<det_vc, det_vc_ret>>

InitDet ==
    /\ det_machine = "none"
    /\ det_vc = VCState
    /\ det_vc_ret = vc_ret
    /\ det_vb = VBState
    /\ det_vb_ret = vb_ret

DetSetTime(t, wall_a, wall_b) ==
    /\ det_machine # "batcher"
    /\ t > now
    /\ SetDetVC(set_time(VCState, t, wall_a), set_time(det_vc, t, wall_b),
                Ret("set_time", None, <<>>, <<>>), Ret("set_time", None, <<>>, <<>>))
    /\ UNCHANGED <<hqVars, vtVars, trVars, llVars, pcVars, bftVars, mkVars, vbVars, pfVars, cmVars, ovVars, sbVars, qiVars, qtVars, fhVars, epVars, ctVars>>

DetUpdateHighestQc(qc) ==
    /\ det_machine # "batcher"
    /\ SetDetVC(update_highest_qc(VCState, qc), update_highest_qc(det_vc, qc),
                Ret("update_highest_qc", None, <<>>, <<>>),
                Ret("update_highest_qc", None, <<>>, <<>>))
    /\ UNCHANGED <<hqVars, vtVars, trVars, llVars, pcVars, bftVars, mkVars, vbVars, pfVars, cmVars, ovVars, sbVars, qiVars, qtVars, fhVars, epVars, ctVars>>

DetResetTimeout(height) ==
    /\ det_machine # "batcher"
    /\ SetDetVC(reset_timeout(VCState, height), reset_timeout(det_vc, height),
                Ret("reset_timeout", None, <<>>, <<>>),
                Ret("reset_timeout", None, <<>>, <<>>))
    /\ UNCHANGED <<hqVars, vtVars, trVars, llVars, pcVars, bftVars, mkVars, vbVars, pfVars, cmVars, ovVars, sbVars, qiVars, qtVars, fhVars, epVars, ctVars>>

DetOnViewChangeTimer ==
    /\ det_machine # "batcher"
    /\ current_round < MaxRound
    /\ det_vc.current_round < MaxRound
    /\ LET ra == on_view_change_timer(VCState)
           rb == on_view_change_timer(det_vc)
       IN SetDetVC(ra.s, rb.s,
                   Ret("on_view_change_timer", None, ra.actions, <<>>),
                   Ret("on_view_change_timer", None, rb.actions, <<>>))
    /\ UNCHANGED <<hqVars, vtVars, trVars, llVars, pcVars, bftVars, mkVars, vbVars, pfVars, cmVars, ovVars, sbVars, qiVars, qtVars, fhVars, epVars, ctVars>>

DetAddViewChangeVote(vote) ==
    /\ det_machine # "batcher"
    /\ LET ra == add_view_change_vote(VCState, vote)
           rb == add_view_change_vote(det_vc, vote)
       IN /\ StoredVotes(ra.s.vote_collector) <= MaxStoredVotes
          /\ StoredVotes(rb.s.vote_collector) <= MaxStoredVotes
          /\ SetDetVC(ra.s, rb.s,
                      Ret("add_view_change_vote", ra.result, <<>>, ra.log),
                      Ret("add_view_change_vote", rb.result, <<>>, rb.log))
    /\ UNCHANGED <<hqVars, vtVars, trVars, llVars, pcVars, bftVars, mkVars, vbVars, pfVars, cmVars, ovVars, sbVars, qiVars, qtVars, fhVars, epVars, ctVars>>

\* The caller of each copy applies the quorum its copy reported.
DetApplyViewChange ==
    /\ det_machine # "batcher"
    /\ vc_ret.op = "add_view_change_vote"
    /\ vc_ret.result # None
    /\ det_vc_ret.op = "add_view_change_vote"
    /\ det_vc_ret.result # None
    /\ LET ra == apply_view_change(VCState, Unwrap(vc_ret.result)[1],
                                   Unwrap(vc_ret.result)[2])
           rb == apply_view_change(det_vc, Unwrap(det_vc_ret.result)[1],
                                   Unwrap(det_vc_ret.result)[2])
       IN SetDetVC(ra.s, rb.s,
                   Ret("apply_view_change", None, ra.actions, <<>>),
                   Ret("apply_view_change", None, rb.actions, <<>>))
    /\ UNCHANGED <<hqVars, vtVars, trVars, llVars, pcVars, bftVars, mkVars, vbVars, pfVars, cmVars, ovVars, sbVars, qiVars, qtVars, fhVars, epVars, ctVars>>

DetOnViewChangeCertificate(cert) ==
    /\ det_machine # "batcher"
    /\ LET ra == on_view_change_certificate(VCState, cert)
           rb == on_view_change_certificate(det_vc, cert)
       IN SetDetVC(ra.s, rb.s,
                   Ret("on_view_change_certificate", None, ra.actions, <<>>),
                   Ret("on_view_change_certificate", None, rb.actions, <<>>))
    /\ UNCHANGED <<hqVars, vtVars, trVars, llVars, pcVars, bftVars, mkVars, vbVars, pfVars, cmVars, ovVars, sbVars, qiVars, qtVars, fhVars, epVars, ctVars>>

DetAddBlockVote(batch_height, vote) ==
    /\ det_machine # "view_change"
    /\ pending_block_votes(VBState) + pending_latent_votes(VBState) < MaxBatch
    /\ pending_block_votes(det_vb) + pending_latent_votes(det_vb) < MaxBatch
    /\ SetDetVB(add_block_vote(VBState, batch_height, vote),
                add_block_vote(det_vb, batch_height, vote), "add_block_vote")
    /\ UNCHANGED <<hqVars, vcVars, vtVars, trVars, llVars, pcVars, bftVars, mkVars, pfVars, cmVars, ovVars, sbVars, qiVars, qtVars, fhVars, epVars, ctVars>>

DetAddLatentVote(vote, at) ==
    /\ det_machine # "view_change"
    /\ pending_block_votes(VBState) + pending_latent_votes(VBState) < MaxBatch
    /\ pending_block_votes(det_vb) + pending_latent_votes(det_vb) < MaxBatch
    /\ SetDetVB(add_latent_vote(VBState, vote, at),
                add_latent_vote(det_vb, vote, at), "add_latent_vote")
    /\ UNCHANGED <<hqVars, vcVars, vtVars, trVars, llVars, pcVars, bftVars, mkVars, pfVars, cmVars, ovVars, sbVars, qiVars, qtVars, fhVars, epVars, ctVars>>

DetFlushBlock ==
    /\ det_machine # "view_change"
    /\ SetDetVB(flush_block(VBState), flush_block(det_vb), "flush_block")
    /\ UNCHANGED <<hqVars, vcVars, vtVars, trVars, llVars, pcVars, bftVars, mkVars, pfVars, cmVars, ovVars, sbVars, qiVars, qtVars, fhVars, epVars, ctVars>>

DetFlushLatent(at) ==
    /\ det_machine # "view_change"
    /\ SetDetVB(flush_latent(VBState, at), flush_latent(det_vb, at), "flush_latent")
    /\ UNCHANGED <<hqVars, vcVars, vtVars, trVars, llVars, pcVars, bftVars, mkVars, pfVars, cmVars, ovVars, sbVars, qiVars, qtVars, fhVars, epVars, ctVars>>

NextDet ==
    \/ \E t \in 0 .. MaxTime, wall_a \in {0, MaxTime}, wall_b \in {0, MaxTime} :
          DetSetTime(t, wall_a, wall_b)
    \/ \E qc \in {RealQC} : DetUpdateHighestQc(qc)
    \/ \E h \in Heights : DetResetTimeout(h)
    \/ DetOnViewChangeTimer
    \/ \E vote \in DetVoteInputs : DetAddViewChangeVote(vote)
    \/ DetApplyViewChange
    \/ \E cert \in DetCertificateInputs : DetOnViewChangeCertificate(cert)
    \/ \E batch_height \in BatchHeights, vote \in DetPendingVotes :
          DetAddBlockVote(batch_height, vote)
    \/ \E vote \in DetPendingVotes, at \in BatchTimes : DetAddLatentVote(vote, at)
    \/ DetFlushBlock
    \/ \E at \in BatchTimes : DetFlushLatent(at)

(***************************************************************************)
(* The whole view-change machine: clock, commits, the timer, votes and     *)
(* certificates of peers, in any order.                                    *)
(***************************************************************************)
\* Peers' votes for a later round that embed the genesis QC and are signed
\* by their voter.
PeerVoteInputs ==
    {vote \in VoteInputs :
        /\ vote.new_view >= 1
        /\ vote.highest_qc = GenesisQC
        /\ vote.signature = sign(vote.voter,
                                 view_change_message(vote.height, vote.new_view))}

\* Peers' certificates for a later round that embed the genesis QC and
\* declare their signers' own power: of one signer or of all the others,
\* signed over the certificate's round or over the next.
PeerCertificateInputs ==
    {cert \in CertificateInputs :
        /\ cert.new_view >= 1
        /\ cert.highest_qc = GenesisQC
        /\ cert.signers \in {[num_validators |-> NumValidators, bits |-> b] :
                                b \in {{0}, CommitteeIds \ {0}}}
        /\ cert.aggregated_signature.signers = cert.signers.bits
        /\ cert.voting_power = calculate_voting_power(cert.signers.bits)}

NextVC ==
    \/ \E t \in 0 .. MaxTime : SetTime(t)
    \/ \E qc \in {RealQC} : UpdateHighestQc(qc)
    \/ \E h \in Heights : ResetTimeout(h)
    \/ OnViewChangeTimer
    \/ CreateViewChangeVote
    \/ \E vote \in PeerVoteInputs : AddViewChangeVote(vote)
    \/ ApplyViewChange
    \/ \E cert \in PeerCertificateInputs : OnViewChangeCertificate(cert)

(***************************************************************************)
(* The batcher's latent votes under every configuration: the batcher is    *)
(* built by VoteBatcher::new or by with_latent_config and then receives    *)
(* latent votes and flushes.                                               *)
(***************************************************************************)
FlushIntervals == {FlushInterval, FlushInterval + 1}

FlushThresholds == 1 .. FlushThreshold

NewVoteBatcher ==
    /\ SetVB([s |-> vote_batcher_new, out |-> <<>>], "new")
    /\ UNCHANGED <<hqVars, vcVars, vtVars, trVars, llVars, pcVars, bftVars, mkVars, detVars, pfVars, cmVars, ovVars, sbVars, qiVars, qtVars, fhVars, epVars, ctVars>>

WithLatentConfig(interval, threshold) ==
    /\ SetVB([s |-> with_latent_config(interval, threshold), out |-> <<>>],
             "with_latent_config")
    /\ UNCHANGED <<hqVars, vcVars, vtVars, trVars, llVars, pcVars, bftVars, mkVars, detVars, pfVars, cmVars, ovVars, sbVars, qiVars, qtVars, fhVars, epVars, ctVars>>

NextLatent ==
    \/ NewVoteBatcher
    \/ \E interval \in FlushIntervals, threshold \in FlushThresholds :
          WithLatentConfig(interval, threshold)
    \/ \E vote \in DetPendingVotes, at \in BatchTimes : AddLatentVote(vote, at)
    \/ \E at \in BatchTimes : FlushLatent(at)

(***************************************************************************)
(* The batcher next to a record of its calls: the votes handed to          *)
(* add_block_vote (with the height of the call) and to add_latent_vote     *)
(* that no flush has returned yet, and the ones the last call had to       *)
(* return.  add_block_vote ends in a panic where its debug assertion       *)
(* fails in a build that keeps debug assertions.                           *)
(***************************************************************************)
\* The call did not return.
HeightPanic == <<"panic", "Block height mismatch in vote batch">>

\* VoteBatcher::add_block_vote in either build: Some(result) of the call, or
\* HeightPanic where debug_assert_eq fails.
add_block_vote_outcomes(b, batch_height, vote) ==
    {Some(add_block_vote(b, batch_height, vote))}
    \cup (IF b.block_batch # None /\ Unwrap(b.block_batch).block_height # batch_height
          THEN {HeightPanic} ELSE {})

\* The votes handed to the batcher in these runs: two transactions.
FlushVotes == {vote \in DetPendingVotes : vote.tx_hash[1] = 0}

InitFH ==
    /\ fh_block = <<>>
    /\ fh_latent = <<>>
    /\ fh_flushed = <<>>
    /\ fh_panicked = FALSE

\* A batcher is made anew (also after a panic ended the one before).
BatchRestart ==
    /\ SetVB([s |-> batcher_new, out |-> <<>>], "with_latent_config")
    /\ fh_block' = <<>>
    /\ fh_latent' = <<>>
    /\ fh_flushed' = <<>>
    /\ fh_panicked' = FALSE
    /\ UNCHANGED <<hqVars, vcVars, vtVars, trVars, llVars, pcVars, bftVars, mkVars, detVars, pfVars, cmVars, ovVars, sbVars, qiVars, qtVars, epVars, ctVars>>

BatchAddBlockVote(batch_height, vote) ==
    /\ ~fh_panicked
    /\ pending_block_votes(VBState) + pending_latent_votes(VBState) < MaxBatch
    /\ \E r \in add_block_vote_outcomes(VBState, batch_height, vote) :
          IF r = HeightPanic
          THEN /\ fh_panicked' = TRUE
               /\ UNCHANGED <<vbVars, fh_block, fh_latent, fh_flushed>>
          ELSE /\ SetVB(Unwrap(r), "add_block_vote")
               /\ fh_block' = Append(fh_block, [vote |-> vote, height |-> Some(batch_height)])
               /\ fh_flushed' = <<>>
               /\ UNCHANGED <<fh_latent, fh_panicked>>
    /\ UNCHANGED <<hqVars, vcVars, vtVars, trVars, llVars, pcVars, bftVars, mkVars, detVars, pfVars, cmVars, ovVars, sbVars, qiVars, qtVars, epVars, ctVars>>

\* add_latent_vote; a call that returns blocks has flushed, and then every
\* latent vote handed over so far is due.
BatchAddLatentVote(vote, at) ==
    /\ ~fh_panicked
    /\ pending_block_votes(VBState) + pending_latent_votes(VBState) < MaxBatch
    /\ LET r == add_latent_vote(VBState, vote, at)
           handed == Append(fh_latent, [vote |-> vote, height |-> None])
       IN /\ SetVB(r, "add_latent_vote")
          /\ fh_latent' = IF r.out = <<>> THEN handed ELSE <<>>
          /\ fh_flushed' = IF r.out = <<>> THEN <<>> ELSE handed
    /\ UNCHANGED <<fh_block, fh_panicked>>
    /\ UNCHANGED <<hqVars, vcVars, vtVars, trVars, llVars, pcVars, bftVars, mkVars, detVars, pfVars, cmVars, ovVars, sbVars, qiVars, qtVars, epVars, ctVars>>

BatchFlushBlock ==
    /\ ~fh_panicked
    /\ SetVB(flush_block(VBState), "flush_block")
    /\ fh_flushed' = fh_block
    /\ fh_block' = <<>>
    /\ UNCHANGED <<fh_latent, fh_panicked>>
    /\ UNCHANGED <<hqVars, vcVars, vtVars, trVars, llVars, pcVars, bftVars, mkVars, detVars, pfVars, cmVars, ovVars, sbVars, qiVars, qtVars, epVars, ctVars>>

BatchFlushLatent(at) ==
    /\ ~fh_panicked
    /\ SetVB(flush_latent(VBState, at), "flush_latent")
    /\ fh_flushed' = fh_latent
    /\ fh_latent' = <<>>
    /\ UNCHANGED <<fh_block, fh_panicked>>
    /\ UNCHANGED <<hqVars, vcVars, vtVars, trVars, llVars, pcVars, bftVars, mkVars, detVars, pfVars, cmVars, ovVars, sbVars, qiVars, qtVars, epVars, ctVars>>

NextFlush ==
    \/ BatchRestart
    \/ \E batch_height \in BatchHeights, vote \in FlushVotes :
          BatchAddBlockVote(batch_height, vote)
    \/ \E vote \in FlushVotes, at \in BatchTimes : BatchAddLatentVote(vote, at)
    \/ BatchFlushBlock
    \/ \E at \in BatchTimes : BatchFlushLatent(at)

(***************************************************************************)
(* The calls of build_merkle_tree_with_proofs the batcher makes: each      *)
(* operator gives the leaf lists its method hands to the builder, in the   *)
(* order of the calls.  The builder asserts that its list is not empty.    *)
(***************************************************************************)
\* create_batched_votes as it would be without its test for an empty batch.
create_batched_votes_calls_unguarded(votes) ==
    LET sorted == sort_by_tx_hash(votes)
    IN <<[i \in DOMAIN sorted |->
             vote_leaf_hash(sorted[i].tx_hash, sorted[i].state_root,
                            batcher_shard, sorted[i].success)]>>

\* VoteBatcher::create_batched_votes.
create_batched_votes_calls(votes) ==
    IF votes = <<>> THEN <<>>
    ELSE LET sorted == sort_by_tx_hash(votes)
         IN <<[i \in DOMAIN sorted |->
                  vote_leaf_hash(sorted[i].tx_hash, sorted[i].state_root,
                                 batcher_shard, sorted[i].success)]>>

\* VoteBatcher::flush_block.
flush_block_calls(b) ==
    IF b.block_batch = None THEN <<>>
    ELSE IF Unwrap(b.block_batch).votes = <<>> THEN <<>>
    ELSE create_batched_votes_calls(Unwrap(b.block_batch).votes)

\* VoteBatcher::flush_latent.
flush_latent_calls(b) ==
    IF b.latent_pending = <<>> THEN <<>>
    ELSE create_batched_votes_calls(b.latent_pending)

\* VoteBatcher::add_latent_vote.
add_latent_vote_calls(b, vote, at) ==
    LET pushed == [b EXCEPT !.latent_pending = Append(@, vote)]
    IN IF \/ saturating_sub(at, pushed.latent_last_flush) > pushed.latent_flush_interval
          \/ Len(pushed.latent_pending) >= pushed.latent_flush_threshold
       THEN flush_latent_calls(pushed)
       ELSE <<>>

(***************************************************************************)
(* Topology::proposer_for (crates/types/src/topology.rs).  Heights and     *)
(* rounds are u64, modelled with WordBits bits.  `height + round` is an    *)
(* unchecked addition: when the sum does not fit, a build with overflow    *)
(* checks panics and a build without them wraps the sum.                   *)
(***************************************************************************)
WordModulus == 2 ^ WordBits

Words == 0 .. WordModulus - 1

\* The call did not return.
Panic == <<"panic", "attempt to add with overflow">>

\* The outcomes of `a + b` on the integer type of the arguments.
add_outcomes(a, b) ==
    IF a + b < WordModulus THEN {Some(a + b)}
    ELSE {Some((a + b) % WordModulus), Panic}

\* A committee of n validators in committee order, as make_test_topology
\* builds it.
committee_of(n) == [i \in 1 .. n |-> i - 1]

\* Topology::proposer_for: the outcomes of the call, Some(validator) or Panic.
\* Sequences count from 1, the committee slice from 0.
proposer_for(committee, height, round) ==
    {IF sum = Panic THEN Panic
     ELSE Some(committee[(Unwrap(sum) % Len(committee)) + 1]) :
        sum \in add_outcomes(height, round)}

InitPF ==
    /\ pf_committee = committee_of(NumValidators)
    /\ pf_height = 0
    /\ pf_round = 0
    /\ pf_ret \in proposer_for(committee_of(NumValidators), 0, 0)

ProposerFor(n, height, round) ==
    /\ pf_committee' = committee_of(n)
    /\ pf_height' = height
    /\ pf_round' = round
    /\ pf_ret' \in proposer_for(committee_of(n), height, round)
    /\ UNCHANGED <<hqVars, vcVars, vtVars, trVars, llVars, pcVars, bftVars, mkVars, vbVars, detVars, cmVars, ovVars, sbVars, qiVars, qtVars, fhVars, epVars, ctVars>>

NextPF ==
    \E n \in 1 .. MaxCommittee, height \in Words, round \in Words :
       ProposerFor(n, height, round)

(***************************************************************************)
(* Quorum checks of voter sets (Topology::has_quorum_for_shard over        *)
(* VotePower::has_quorum) with the width of the u64 products kept:         *)
(* WordBits bits stand for 64.  The committee gives each validator a       *)
(* power of its own; its total is summed at construction and fits the      *)
(* integer type.                                                           *)
(***************************************************************************)
MaxValidatorPower == 4

\* The call did not return.
MulPanic == <<"panic", "attempt to multiply with overflow">>

\* The outcomes of `a * b` on the integer type of the arguments.
mul_outcomes(a, b) ==
    IF a * b < WordModulus THEN {Some(a * b)}
    ELSE {Some((a * b) % WordModulus), MulPanic}

\* VotePower::has_quorum on the integer type: the outcomes of the call,
\* Some(boolean) or MulPanic.  A build either checks every product or wraps
\* every product.
has_quorum_outcomes(voted, total) ==
    {Some(((voted * 3) % WordModulus) > ((total * 2) % WordModulus))}
    \cup (IF MulPanic \in mul_outcomes(voted, 3) \cup mul_outcomes(total, 2)
          THEN {MulPanic} ELSE {})

\* The committees: a power for each of the NumValidators validators.
CommitteePowers == [0 .. NumValidators - 1 -> 1 .. MaxValidatorPower]

\* The power of a set of validators of the committee.
power_of(powers, voters) == SumOver(voters, powers)

\* StaticTopology::new: total_voting_power of the shard committee.
committee_total(powers) == power_of(powers, DOMAIN powers)

InitQI ==
    /\ qi_powers = [v \in 0 .. NumValidators - 1 |-> voting_power(v)]
    /\ qi_quorums = {}
    /\ qi_ret = None

\* A topology over another committee.
NewCommittee(powers) ==
    /\ qi_powers' = powers
    /\ qi_quorums' = {}
    /\ qi_ret' = None
    /\ UNCHANGED <<hqVars, vcVars, vtVars, trVars, llVars, pcVars, bftVars, mkVars, vbVars, detVars, pfVars, cmVars, ovVars, sbVars, qtVars, fhVars, epVars, ctVars>>

\* has_quorum_for_shard for the power of a set of voters; the sets it
\* answered true for are kept.
HasQuorumForShard(voters) ==
    /\ \E out \in has_quorum_outcomes(power_of(qi_powers, voters),
                                      committee_total(qi_powers)) :
          /\ qi_ret' = out
          /\ qi_quorums' = IF out = Some(TRUE) THEN qi_quorums \cup {voters}
                           ELSE qi_quorums
    /\ UNCHANGED qi_powers
    /\ UNCHANGED <<hqVars, vcVars, vtVars, trVars, llVars, pcVars, bftVars, mkVars, vbVars, detVars, pfVars, cmVars, ovVars, sbVars, qtVars, fhVars, epVars, ctVars>>

NextQI ==
    \/ \E powers \in CommitteePowers : NewCommittee(powers)
    \/ \E voters \in SUBSET (0 .. NumValidators - 1) : HasQuorumForShard(voters)

(***************************************************************************)
(* Topology::quorum_threshold_for_shard on the integer type, next to       *)
(* VotePower::has_quorum and the comparison VoteTracker::check_quorum      *)
(* makes with the threshold it was created with.                           *)
(***************************************************************************)
\* Topology::quorum_threshold_for_shard: the outcomes of the call,
\* Some(threshold) or MulPanic.
quorum_threshold_outcomes(total) ==
    {IF doubled = MulPanic THEN MulPanic ELSE Some(Unwrap(doubled) \div 3 + 1) :
        doubled \in mul_outcomes(total, 2)}

\* The test of VoteTracker::check_quorum on one root's power.
power_reaches(power, quorum) == power >= quorum

\* The calls of one build on a total and an accumulated power: the build
\* checks every product or wraps every product.
QuorumCalls(total, voted) ==
    {[threshold |-> Some(((total * 2) % WordModulus) \div 3 + 1),
      has_quorum |-> Some(((voted * 3) % WordModulus) > ((total * 2) % WordModulus))]}
    \cup
    {[threshold |-> threshold, has_quorum |-> reached] :
        threshold \in IF total * 2 < WordModulus THEN quorum_threshold_outcomes(total)
                      ELSE {MulPanic},
        reached \in IF MulPanic \in has_quorum_outcomes(voted, total) THEN {MulPanic}
                    ELSE has_quorum_outcomes(voted, total)}

InitQT ==
    /\ qt_total = 0
    /\ qt_voted = 0
    /\ qt_threshold = Some(1)
    /\ qt_has_quorum = Some(FALSE)
    /\ qt_reported = FALSE

\* quorum_threshold_for_shard and has_quorum_for_shard of a shard with the
\* given total, and the tracker's test of an accumulated power against the
\* threshold.
QuorumThresholdForShard(total, voted) ==
    \E call \in QuorumCalls(total, voted) :
       /\ qt_total' = total
       /\ qt_voted' = voted
       /\ qt_threshold' = call.threshold
       /\ qt_has_quorum' = call.has_quorum
       /\ qt_reported' = IF call.threshold = MulPanic THEN FALSE
                         ELSE power_reaches(voted, Unwrap(call.threshold))
       /\ UNCHANGED <<hqVars, vcVars, vtVars, trVars, llVars, pcVars, bftVars, mkVars, vbVars, detVars, pfVars, cmVars, ovVars, sbVars, qiVars, fhVars, epVars, ctVars>>

NextQT == \E total \in Words, voted \in Words : QuorumThresholdForShard(total, voted)

(***************************************************************************)
(* BlockHeader::expected_proposer (crates/types/src/block.rs) next to      *)
(* Topology::proposer_for over the committees StaticTopology::new builds:  *)
(* a validator belongs to shard validator_id % num_shards and the          *)
(* committee of a shard lists its validators in validator-set order.       *)
(***************************************************************************)
MaxValidatorId == 3
MaxShards == 2
MaxSetSize == 3

\* The validator sets: lists of distinct validator ids.
ValidatorSets ==
    {vs \in UNION {[1 .. k -> 0 .. MaxValidatorId] : k \in 1 .. MaxSetSize} :
        \A i \in DOMAIN vs, j \in DOMAIN vs : i # j => vs[i] # vs[j]}

\* StaticTopology::new: the committee of a shard.
RECURSIVE shard_committee(_, _, _)
shard_committee(validators, num_shards, shard) ==
    IF validators = <<>> THEN <<>>
    ELSE LET rest == shard_committee(Tail(validators), num_shards, shard)
         IN IF Head(validators) % num_shards = shard
            THEN <<Head(validators)>> \o rest
            ELSE rest

\* StaticTopology::new: the shard of the local validator, and
\* Topology::local_committee.
ep_local_committee(validators, num_shards, local_validator_id) ==
    shard_committee(validators, num_shards, local_validator_id % num_shards)

\* BlockHeader::expected_proposer: the outcomes of the call, Some(validator)
\* or Panic.
expected_proposer(height, round, committee_size) ==
    {IF sum = Panic THEN Panic ELSE Some(Unwrap(sum) % committee_size) :
        sum \in add_outcomes(height, round)}

InitEP ==
    /\ ep_validators = committee_of(NumValidators)
    /\ ep_num_shards = 1
    /\ ep_local = LocalValidator
    /\ ep_height = 0
    /\ ep_round = 0
    /\ ep_expected \in expected_proposer(0, 0, NumValidators)
    /\ ep_proposer \in proposer_for(committee_of(NumValidators), 0, 0)

\* A node of the topology reads the header of a block of its shard: the
\* proposer the header expects for the size of the local committee, and the
\* proposer the topology names.  Both sums are made by the same build.
ExpectedProposer(validators, num_shards, local_validator_id, height, round) ==
    /\ \E i \in DOMAIN validators : validators[i] = local_validator_id
    /\ LET committee == ep_local_committee(validators, num_shards, local_validator_id)
       IN \E expected \in expected_proposer(height, round, Len(committee)),
             named \in proposer_for(committee, height, round) :
             /\ (expected = Panic) <=> (named = Panic)
             /\ ep_expected' = expected
             /\ ep_proposer' = named
    /\ ep_validators' = validators
    /\ ep_num_shards' = num_shards
    /\ ep_local' = local_validator_id
    /\ ep_height' = height
    /\ ep_round' = round
    /\ UNCHANGED <<hqVars, vcVars, vtVars, trVars, llVars, pcVars, bftVars, mkVars, vbVars, detVars, pfVars, cmVars, ovVars, sbVars, qiVars, qtVars, fhVars, ctVars>>

NextEP ==
    \E validators \in ValidatorSets, num_shards \in 1 .. MaxShards,
       local_validator_id \in 0 .. MaxValidatorId,
       height \in Heights, round \in Rounds :
       ExpectedProposer(validators, num_shards, local_validator_id, height, round)

(***************************************************************************)
(* CompositeStateMachine (crates/core/src/traits.rs): handle offers the    *)
(* event to the sub-machines in the order sub_machines() returns them.     *)
(* A sub-machine here counts the events it was offered and the ones it     *)
(* handled; the events it takes are fixed and overlap between              *)
(* sub-machines.                                                           *)
(***************************************************************************)
NumSubMachines == 3

\* Event k is taken by sub-machines k and k + 1 (where they exist); the last
\* event is taken by none.
Events == 1 .. NumSubMachines + 1

handled_events(i) == {e \in Events : (e = i \/ e + 1 = i) /\ e <= NumSubMachines}

\* SubStateMachine::try_handle of sub-machine i: takes &mut self, so the
\* sub-machine changes when it is asked, whether it handles the event or not.
try_handle(sub, i, event) ==
    IF event \in handled_events(i)
    THEN [s |-> [sub EXCEPT !.asked = @ + 1, !.handled = @ + 1],
          result |-> Some(<<[type |-> "Handled", by |-> i, event |-> event]>>)]
    ELSE [s |-> [sub EXCEPT !.asked = @ + 1], result |-> None]

\* handle as it would be if every sub-machine were offered the event and the
\* actions of the first that handled it were returned.
RECURSIVE handle_offering_to_all_from(_, _, _, _)
handle_offering_to_all_from(subs, event, i, actions) ==
    IF i > Len(subs) THEN [subs |-> subs, actions |-> actions]
    ELSE LET r == try_handle(subs[i], i, event)
         IN handle_offering_to_all_from(
                [subs EXCEPT ![i] = r.s], event, i + 1,
                IF actions = <<>> /\ r.result # None THEN Unwrap(r.result)
                ELSE actions)

handle_offering_to_all(subs, event) ==
    handle_offering_to_all_from(subs, event, 1, <<>>)

\* The loop of handle from sub-machine i on.
RECURSIVE handle_from(_, _, _)
handle_from(subs, event, i) ==
    IF i > Len(subs) THEN [subs |-> subs, actions |-> <<>>]
    ELSE LET r == try_handle(subs[i], i, event)
         IN IF r.result # None
            THEN [subs |-> [subs EXCEPT ![i] = r.s], actions |-> Unwrap(r.result)]
            ELSE handle_from([subs EXCEPT ![i] = r.s], event, i + 1)

\* StateMachine::handle of a CompositeStateMachine.
handle(subs, event) == handle_from(subs, event, 1)

MaxEvents == 5         \* events offered to the composite machine

InitCM ==
    /\ cm_subs = [i \in 1 .. NumSubMachines |-> [asked |-> 0, handled |-> 0]]
    /\ cm_event = 0
    /\ cm_ret = <<>>

Handle(event) ==
    /\ cm_subs[1].asked < MaxEvents
    /\ LET r == handle(cm_subs, event)
       IN /\ cm_subs' = r.subs
          /\ cm_ret' = r.actions
    /\ cm_event' = event
    /\ UNCHANGED <<hqVars, vcVars, vtVars, trVars, llVars, pcVars, bftVars, mkVars, vbVars, detVars, pfVars, ovVars, sbVars, qiVars, qtVars, fhVars, epVars, ctVars>>

NextCM == \E event \in Events : Handle(event)

(***************************************************************************)
(* The time of a composite state machine (StateMachine for                 *)
(* CompositeStateMachine, crates/core/src/traits.rs): the runner passes    *)
(* the time with set_time before it hands over an event, and reads it with *)
(* now.  Each sub-machine stores the time its set_time is given.           *)
(***************************************************************************)
\* SubStateMachine::set_time of one sub-machine.
sub_set_time(sub_now, t) == t

\* StateMachine::set_time of a CompositeStateMachine: the loop over
\* sub_machines().
composite_set_time(subs_now, t) == [i \in DOMAIN subs_now |-> sub_set_time(subs_now[i], t)]

\* StateMachine::now of a CompositeStateMachine.
composite_now(subs_now) == 0

InitCT ==
    /\ ct_sub_now = [i \in 1 .. NumSubMachines |-> 0]
    /\ ct_passed = None
    /\ ct_now_ret = None

CompositeSetTime(t) ==
    /\ ct_sub_now' = composite_set_time(ct_sub_now, t)
    /\ ct_passed' = Some(t)
    /\ ct_now_ret' = None
    /\ UNCHANGED <<hqVars, vcVars, vtVars, trVars, llVars, pcVars, bftVars, mkVars, vbVars, detVars, pfVars, cmVars, ovVars, sbVars, qiVars, qtVars, fhVars, epVars>>

CompositeNow ==
    /\ ct_now_ret' = Some(composite_now(ct_sub_now))
    /\ UNCHANGED <<ct_sub_now, ct_passed>>
    /\ UNCHANGED <<hqVars, vcVars, vtVars, trVars, llVars, pcVars, bftVars, mkVars, vbVars, detVars, pfVars, cmVars, ovVars, sbVars, qiVars, qtVars, fhVars, epVars>>

NextCT ==
    \/ \E t \in 0 .. MaxTime : CompositeSetTime(t)
    \/ CompositeNow
    \/ \E event \in Events : Handle(event)

(***************************************************************************)
(* OverlayTreeStore (crates/engine/src/overlay.rs) over a base store.      *)
(* ov_history remembers, per key, the last write of the overlay: nothing,  *)
(* an insert of a node, or a stale mark.  ov_base_at_new is the base store *)
(* as it was when the overlay was made.                                    *)
(***************************************************************************)
NumNodeKeys == 2       \* StoredTreeNodeKey values 1..NumNodeKeys
NumTreeNodes == 2      \* TreeNode values 1..NumTreeNodes

NodeKeys == 1 .. NumNodeKeys

TreeNodes == 1 .. NumTreeNodes

\* The contents a base store may have: each key absent or holding a node.
BaseStores == [NodeKeys -> {None} \cup {Some(n) : n \in TreeNodes}]

\* StaleTreePart: one node, or a subtree named by its root.
StaleTreeParts ==
    {[kind |-> k, key |-> key] : k \in {"Node", "Subtree"}, key \in NodeKeys}

OVState == [base |-> base, inserted_nodes |-> inserted_nodes, stale_keys |-> stale_keys]

\* OverlayTreeStore::new.
overlay_new(store) == [base |-> store, inserted_nodes |-> <<>>, stale_keys |-> {}]

\* TypedInMemoryTreeStore::get_node of the base store.
base_get_node(store, key) == store[key]

\* get_node as it would be if the overlay's inserts were looked up before
\* the stale set.
get_node_inserted_first(s, key) ==
    IF key \in DOMAIN s.inserted_nodes THEN Some(s.inserted_nodes[key])
    ELSE IF key \in s.stale_keys THEN None
    ELSE base_get_node(s.base, key)

\* OverlayTreeStore::get_node.
get_node(s, key) ==
    IF key \in s.stale_keys THEN None
    ELSE IF key \in DOMAIN s.inserted_nodes THEN Some(s.inserted_nodes[key])
    ELSE base_get_node(s.base, key)

\* OverlayTreeStore::insert_node.
insert_node(s, key, node) ==
    [s EXCEPT !.stale_keys = @ \ {key},
              !.inserted_nodes = (key :> node) @@ @]

\* OverlayTreeStore::record_stale_tree_part: for a subtree only the root key
\* is marked.
record_stale_tree_part(s, part) ==
    [s EXCEPT !.stale_keys = @ \cup {part.key}]

SetOV(s) ==
    /\ base' = s.base
    /\ inserted_nodes' = s.inserted_nodes
    /\ stale_keys' = s.stale_keys

InitOV ==
    /\ base = [k \in NodeKeys |-> None]
    /\ inserted_nodes = <<>>
    /\ stale_keys = {}
    /\ ov_history = [k \in NodeKeys |-> <<"none">>]
    /\ ov_base_at_new = [k \in NodeKeys |-> None]

\* A new overlay over a base store.
OverlayNew(store) ==
    /\ SetOV(overlay_new(store))
    /\ ov_history' = [k \in NodeKeys |-> <<"none">>]
    /\ ov_base_at_new' = store
    /\ UNCHANGED <<hqVars, vcVars, vtVars, trVars, llVars, pcVars, bftVars, mkVars, vbVars, detVars, pfVars, cmVars, sbVars, qiVars, qtVars, fhVars, epVars, ctVars>>

InsertNode(key, node) ==
    /\ SetOV(insert_node(OVState, key, node))
    /\ ov_history' = [ov_history EXCEPT ![key] = <<"inserted", node>>]
    /\ UNCHANGED ov_base_at_new
    /\ UNCHANGED <<hqVars, vcVars, vtVars, trVars, llVars, pcVars, bftVars, mkVars, vbVars, detVars, pfVars, cmVars, sbVars, qiVars, qtVars, fhVars, epVars, ctVars>>

RecordStaleTreePart(part) ==
    /\ SetOV(record_stale_tree_part(OVState, part))
    /\ ov_history' = [ov_history EXCEPT ![part.key] = <<"stale">>]
    /\ UNCHANGED ov_base_at_new
    /\ UNCHANGED <<hqVars, vcVars, vtVars, trVars, llVars, pcVars, bftVars, mkVars, vbVars, detVars, pfVars, cmVars, sbVars, qiVars, qtVars, fhVars, epVars, ctVars>>

NextOV ==
    \/ \E store \in BaseStores : OverlayNew(store)
    \/ \E key \in NodeKeys, node \in TreeNodes : InsertNode(key, node)
    \/ \E part \in StaleTreeParts : RecordStaleTreePart(part)

(***************************************************************************)
(* SignerBitfield with its bytes (crates/types/src/signer_bitfield.rs):    *)
(* bits is the Vec<u8>, a sequence of bytes counted from 1 here and from 0 *)
(* in the code.  A bitfield comes from new, from empty or off the wire,    *)
(* where the decoder fills the two fields with whatever was sent.          *)
(***************************************************************************)
MaxBitfieldSize == 9   \* num_validators handed to SignerBitfield::new: 0..MaxBitfieldSize

BitIndices == 0 .. MaxBitfieldSize + 8

\* The call indexed bits past its end.
IndexPanic == <<"panic", "index out of bounds">>

\* usize::div_ceil.
div_ceil(a, b) == (a + b - 1) \div b

\* (byte >> bit_idx) & 1 == 1.
bit_of(byte, bit_idx) == (byte \div (2 ^ bit_idx)) % 2 = 1

\* SignerBitfield::new.
signer_bitfield_new(n) ==
    [bits |-> [i \in 1 .. div_ceil(n, 8) |-> 0], num_validators |-> n]

\* SignerBitfield::empty.
signer_bitfield_empty == [bits |-> <<>>, num_validators |-> 0]

\* set as it would be if it tested the index against the bytes held and not
\* against num_validators.
signer_bitfield_set_within_bytes(bf, index) ==
    LET byte_idx == index \div 8
        bit_idx == index % 8
    IN IF byte_idx < Len(bf.bits)
       THEN Some([bf EXCEPT !.bits[byte_idx + 1] =
                     IF bit_of(@, bit_idx) THEN @ ELSE @ + 2 ^ bit_idx])
       ELSE Some(bf)

\* SignerBitfield::set: Some(the bitfield after the call), or IndexPanic when
\* bits[byte_idx] is past the end of bits.
signer_bitfield_set(bf, index) ==
    IF index < bf.num_validators
    THEN LET byte_idx == index \div 8
             bit_idx == index % 8
         IN IF byte_idx >= Len(bf.bits) THEN IndexPanic
            ELSE Some([bf EXCEPT !.bits[byte_idx + 1] =
                          IF bit_of(@, bit_idx) THEN @ ELSE @ + 2 ^ bit_idx])
    ELSE Some(bf)

\* SignerBitfield::clear.
signer_bitfield_clear(bf, index) ==
    IF index < bf.num_validators
    THEN LET byte_idx == index \div 8
             bit_idx == index % 8
         IN IF byte_idx >= Len(bf.bits) THEN IndexPanic
            ELSE Some([bf EXCEPT !.bits[byte_idx + 1] =
                          IF bit_of(@, bit_idx) THEN @ - 2 ^ bit_idx ELSE @])
    ELSE Some(bf)

\* SignerBitfield::is_set.
is_set(bf, index) ==
    IF index >= bf.num_validators THEN FALSE
    ELSE LET byte_idx == index \div 8
             bit_idx == index % 8
         IN IF byte_idx >= Len(bf.bits) THEN FALSE
            ELSE bit_of(bf.bits[byte_idx + 1], bit_idx)

\* Bitfields off the wire whose fields do not fit each other: fewer bytes
\* than num_validators needs, bits set past num_validators, more bytes than
\* needed.
DecodedBitfields ==
    {[bits |-> <<>>, num_validators |-> 3],
     [bits |-> <<255>>, num_validators |-> 3],
     [bits |-> <<255>>, num_validators |-> MaxBitfieldSize],
     [bits |-> <<0, 128>>, num_validators |-> 3]}

InitSB ==
    /\ signer_bitfield = signer_bitfield_empty
    /\ sb_ret = [op |-> "empty", index |-> 0, result |-> None]

SignerBitfieldMake(n) ==
    /\ signer_bitfield' = signer_bitfield_new(n)
    /\ sb_ret' = [op |-> "new", index |-> n, result |-> None]
    /\ UNCHANGED <<hqVars, vcVars, vtVars, trVars, llVars, pcVars, bftVars, mkVars, vbVars, detVars, pfVars, cmVars, ovVars, qiVars, qtVars, fhVars, epVars, ctVars>>

SignerBitfieldDecode(bf) ==
    /\ signer_bitfield' = bf
    /\ sb_ret' = [op |-> "decode", index |-> 0, result |-> None]
    /\ UNCHANGED <<hqVars, vcVars, vtVars, trVars, llVars, pcVars, bftVars, mkVars, vbVars, detVars, pfVars, cmVars, ovVars, qiVars, qtVars, fhVars, epVars, ctVars>>

\* A call that panics leaves the bitfield as it was.
SignerBitfieldSet(index) ==
    /\ LET r == signer_bitfield_set(signer_bitfield, index)
       IN /\ signer_bitfield' = IF r = IndexPanic THEN signer_bitfield ELSE Unwrap(r)
          /\ sb_ret' = [op |-> "set", index |-> index,
                        result |-> IF r = IndexPanic THEN IndexPanic ELSE None]
    /\ UNCHANGED <<hqVars, vcVars, vtVars, trVars, llVars, pcVars, bftVars, mkVars, vbVars, detVars, pfVars, cmVars, ovVars, qiVars, qtVars, fhVars, epVars, ctVars>>

SignerBitfieldClear(index) ==
    /\ LET r == signer_bitfield_clear(signer_bitfield, index)
       IN /\ signer_bitfield' = IF r = IndexPanic THEN signer_bitfield ELSE Unwrap(r)
          /\ sb_ret' = [op |-> "clear", index |-> index,
                        result |-> IF r = IndexPanic THEN IndexPanic ELSE None]
    /\ UNCHANGED <<hqVars, vcVars, vtVars, trVars, llVars, pcVars, bftVars, mkVars, vbVars, detVars, pfVars, cmVars, ovVars, qiVars, qtVars, fhVars, epVars, ctVars>>

SignerBitfieldIsSet(index) ==
    /\ signer_bitfield' = signer_bitfield
    /\ sb_ret' = [op |-> "is_set", index |-> index,
                  result |-> Some(is_set(signer_bitfield, index))]
    /\ UNCHANGED <<hqVars, vcVars, vtVars, trVars, llVars, pcVars, bftVars, mkVars, vbVars, detVars, pfVars, cmVars, ovVars, qiVars, qtVars, fhVars, epVars, ctVars>>

NextSB ==
    \/ \E n \in {0, 1, 3, 8, MaxBitfieldSize} : SignerBitfieldMake(n)
    \/ \E bf \in DecodedBitfields : SignerBitfieldDecode(bf)
    \/ \E index \in BitIndices : SignerBitfieldSet(index)
    \/ \E index \in BitIndices : SignerBitfieldClear(index)
    \/ \E index \in {0, 2, 3, 8, MaxBitfieldSize} : SignerBitfieldIsSet(index)

(***************************************************************************)
(* The view-change machine under a caller that applies every quorum        *)
(* add_view_change_vote reports, as on_view_change_timer does for the      *)
(* node's own vote: the delivery of a vote is add_view_change_vote         *)
(* followed, on Some((height, new_round)), by apply_view_change.           *)
(***************************************************************************)
receive_view_change_vote(s, vote) ==
    LET added == add_view_change_vote(s, vote) IN
    IF added.result = None
    THEN [s |-> added.s, result |-> None, actions |-> <<>>, log |-> added.log]
    ELSE LET applied == apply_view_change(added.s, Unwrap(added.result)[1],
                                          Unwrap(added.result)[2])
         IN [s |-> applied.s, result |-> added.result,
             actions |-> applied.actions, log |-> added.log]

ReceiveViewChangeVote(vote) ==
    /\ LET r == receive_view_change_vote(VCState, vote)
       IN /\ StoredVotes(r.s.vote_collector) <= MaxStoredVotes
          /\ SetVC(r.s)
          /\ vc_ret' = Ret("receive_view_change_vote", r.result, r.actions, r.log)
    /\ UNCHANGED <<hqVars, vtVars, trVars, llVars, pcVars, bftVars, mkVars, vbVars, detVars, pfVars, cmVars, ovVars, sbVars, qiVars, qtVars, fhVars, epVars, ctVars>>

NextReceive ==
    \/ \E t \in 0 .. MaxTime : SetTime(t)
    \/ \E h \in Heights : ResetTimeout(h)
    \/ OnViewChangeTimer
    \/ \E vote \in PeerVoteInputs : ReceiveViewChangeVote(vote)

(***************************************************************************)
(* The specifications.                                                     *)
(***************************************************************************)
vars == <<hqVars, vcVars, vtVars, trVars, llVars, pcVars, bftVars, mkVars, vbVars, detVars,
          pfVars, cmVars, ovVars, sbVars, qiVars, qtVars, fhVars, epVars, ctVars>>

Init ==
    /\ InitHQ /\ InitVC /\ InitVT /\ InitTR /\ InitLL /\ InitPC /\ InitBFT
    /\ InitMK /\ InitVB /\ InitDet /\ InitPF /\ InitCM /\ InitOV /\ InitSB /\ InitQI /\ InitQT /\ InitFH /\ InitEP /\ InitCT

SpecHQ == Init /\ [][NextHQ]_vars

SpecVotes == Init /\ [][NextVotes]_vars

SpecCert == Init /\ [][NextCert]_vars

SpecVT == Init /\ [][NextVT]_vars

SpecTR == Init /\ [][NextTR]_vars

SpecLL == Init /\ [][NextLL]_vars

SpecPC == Init /\ [][NextPC]_vars

SpecBFT == Init /\ [][NextBFT]_vars

SpecMK == Init /\ [][NextMK]_vars

SpecVB == Init /\ [][NextVB]_vars

SpecDet == Init /\ [][NextDet]_vars

SpecVC == Init /\ [][NextVC]_vars

SpecLatent == Init /\ [][NextLatent]_vars

SpecPF == Init /\ [][NextPF]_vars

SpecCM == Init /\ [][NextCM]_vars

SpecOV == Init /\ [][NextOV]_vars

SpecSB == Init /\ [][NextSB]_vars

SpecReceive == Init /\ [][NextReceive]_vars

SpecQI == Init /\ [][NextQI]_vars

SpecQT == Init /\ [][NextQT]_vars

SpecFlush == Init /\ [][NextFlush]_vars

SpecEP == Init /\ [][NextEP]_vars

SpecCT == Init /\ [][NextCT]_vars

(***************************************************************************)
(* Properties.                                                             *)
(***************************************************************************)

\* The power of the validators that signed a certificate.
SignerPower(qc) == calculate_voting_power(qc.signers \cap CommitteeIds)

\* A certificate is the genesis sentinel or its signers hold more than two
\* thirds of the committee's power.
BackedByQuorum(qc) ==
    qc_is_genesis(qc) \/ SignerPower(qc) * 3 > total_voting_power * 2

\* The certificates the last call put on the wire.
BroadcastCertificates ==
    {vc_ret.actions[i].certificate :
        i \in {j \in DOMAIN vc_ret.actions :
                  vc_ret.actions[j].type = "BroadcastViewChangeCertificate"}}

\* C1: with the Byzantine validators holding less than one third of the
\* voting power, and whatever the order of votes and observed certificates,
\* no two honest validators commit different blocks at the same height.
C1_NoConflictingCommits ==
    \A n \in Honest, m \in Honest :
        \A a \in bft_committed[n], b \in bft_committed[m] :
            block_height(a) = block_height(b) => a = b

\* Two honest validators have committed the same block at height 2 although
\* two conflicting blocks of height 1 both gathered a quorum certificate.
C1_Witness ==
    /\ \E n \in Honest, m \in Honest :
          /\ n # m
          /\ \E a \in bft_committed[n] \cap bft_committed[m] : block_height(a) = 2
    /\ \E a \in BlocksAt(1), b \in BlocksAt(1) :
          a # b /\ qc_formed(bft_votes, a) /\ qc_formed(bft_votes, b)

\* C2: every quorum certificate other than the genesis sentinel that the
\* node stores (highest_qc, the highest_qc of a collected view-change vote,
\* the highest_qc tracked per (height, round)) or broadcasts (inside a
\* view-change certificate) is backed by signers whose combined voting power
\* is strictly greater than two thirds of the total.
C2_StoredQCsBackedByQuorum ==
    /\ BackedByQuorum(highest_qc)
    /\ \A k \in DOMAIN highest_qc_collector : BackedByQuorum(highest_qc_collector[k])
    /\ \A k \in DOMAIN vote_collector :
          \A v \in DOMAIN vote_collector[k] :
              BackedByQuorum(vote_collector[k][v].highest_qc)
    /\ \A cert \in BroadcastCertificates : BackedByQuorum(cert.highest_qc)

CoversVotes(cert, voters) ==
    \A v \in DOMAIN voters : cert.highest_qc.height >= voters[v].highest_qc.height

\* C4: every ViewChangeCertificate built for a (height, new round), whether
\* build_certificate is asked for it now or apply_view_change has just put
\* it on the wire, embeds a highest_qc at least as high as the highest_qc of
\* every vote whose signature it aggregates.
C4_CertificateEmbedsHighestQC ==
    /\ \A k \in DOMAIN vote_collector :
          LET cert == build_certificate(VCState, k[1], k[2])
          IN cert # None => CoversVotes(Unwrap(cert), vote_collector[k])
    /\ \A cert \in BroadcastCertificates :
          /\ <<cert.height, cert.new_view>> \in DOMAIN vote_collector
          /\ CoversVotes(cert, vote_collector[<<cert.height, cert.new_view>>])

\* apply_view_change has broadcast a certificate over votes that attached
\* certificates of different heights.
C4_Witness ==
    /\ vc_ret.op = "apply_view_change"
    /\ \E cert \in BroadcastCertificates :
          LET voters == vote_collector[<<cert.height, cert.new_view>>]
          IN \E v, w \in DOMAIN voters :
                /\ voters[v].highest_qc.height < voters[w].highest_qc.height
                /\ cert.highest_qc.height = voters[w].highest_qc.height

\* The last call was add_view_change_vote and it took the duplicate branch.
DuplicateDelivered ==
    /\ vc_ret.op = "add_view_change_vote"
    /\ vc_ret.log[1] = "duplicate"

\* The power of the distinct voters recorded under a key.
DistinctVoterPower(vote_key) ==
    calculate_voting_power(DOMAIN vote_collector[vote_key])

\* C5: each voter is recorded once per (height, new round), and a vote
\* delivered again by a voter already recorded never makes
\* add_view_change_vote report quorum when the distinct voters' combined
\* power does not exceed two thirds of the total.
C5_DuplicateVoteNoQuorum ==
    DuplicateDelivered =>
        /\ vc_ret.log[3] \in DOMAIN vote_collector[vc_ret.log[2]]
        /\ (DistinctVoterPower(vc_ret.log[2]) * 3 <= total_voting_power * 2
                => vc_ret.result = None)

\* A vote has been delivered a second time while its key was below quorum.
C5_Witness ==
    /\ DuplicateDelivered
    /\ DistinctVoterPower(vc_ret.log[2]) * 3 <= total_voting_power * 2
    /\ vc_ret.result = None

\* The signers a certificate's bitfield names, and whether its aggregated
\* signature is theirs over the certificate's view-change message.
BitfieldSigners(cert) ==
    {local_committee[i] : i \in cert.signers.bits \cap DOMAIN local_committee}

SignatureVerifies(cert) ==
    /\ cert.signers.bits # {}
    /\ cert.signers.bits \subseteq DOMAIN local_committee
    /\ cert.aggregated_signature.signers = BitfieldSigners(cert)
    /\ cert.aggregated_signature.msg = view_change_message(cert.height, cert.new_view)

\* The four conditions of the certificate check.
CertificateValid(cert) ==
    /\ cert.height = current_height
    /\ cert.new_view > current_round
    /\ cert.voting_power * 3 > total_voting_power * 2
    /\ SignatureVerifies(cert)

\* The embedded highest_qc is the genesis sentinel or declares quorum.
EmbeddedQCValid(cert) ==
    \/ cert.highest_qc.height = 0 /\ cert.highest_qc.block_hash = ZeroHash
    \/ cert.highest_qc.voting_power * 3 > total_voting_power * 2

\* What on_view_change_certificate does with a certificate it applies.
CertificateApplied(r, cert) ==
    /\ r.s.current_round = cert.new_view
    /\ r.s.current_height = current_height
    /\ r.s.last_progress_time = now
    /\ r.s.timeout_vote_broadcast = FALSE
    /\ r.actions = <<[type |-> "ViewChangeCompleted",
                      height |-> cert.height, new_round |-> cert.new_view]>>

\* What on_view_change_certificate does with a certificate it ignores.
CertificateIgnored(r) == r.s = VCState /\ r.actions = <<>>

\* C6, as stated: a certificate for the current height, a later round, with
\* more than two thirds of the power and a verifying aggregated signature is
\* applied (current_round set, timeout window reset, exactly one
\* ViewChangeCompleted); any other yields no actions and no state change.
C6_Original ==
    \A cert \in CertificateInputs :
        LET r == on_view_change_certificate(VCState, cert)
        IN IF CertificateValid(cert)
           THEN CertificateApplied(r, cert)
           ELSE CertificateIgnored(r)

\* C6: on_view_change_certificate applies a certificate (current_round set to
\* its round, timeout window reset, exactly one ViewChangeCompleted) exactly
\* when it is for the current height, a later round, declares more than two
\* thirds of the power, carries a verifying aggregated signature, and embeds
\* a highest_qc that is genesis or declares quorum; any other certificate
\* yields no actions and no state change.
C6_CertificateAppliedIffValid ==
    \A cert \in CertificateInputs :
        LET r == on_view_change_certificate(VCState, cert)
        IN IF CertificateValid(cert) /\ EmbeddedQCValid(cert)
           THEN CertificateApplied(r, cert)
           ELSE CertificateIgnored(r)

\* A certificate has been applied: the round advanced and the one
\* ViewChangeCompleted was emitted.
C6_Witness ==
    /\ vc_ret.op = "on_view_change_certificate"
    /\ current_round > 0
    /\ vc_ret.actions = <<[type |-> "ViewChangeCompleted",
                           height |-> current_height, new_round |-> current_round]>>

\* A provision signed by its own validator, a member of the source
\* committee, over the provision's signing message.
ValidlySigned(p) ==
    /\ p.validator_id \in CommitteeIds
    /\ p.signature.signers = {p.validator_id}
    /\ p.signature.msg = <<"STATE_PROVISION", p.transaction_hash, p.target_shard,
                           p.source_shard, p.block_height, p.entries>>

\* The power of the validators whose validly signed provision for (tx, source
\* shard) is stored.
VerifiedPower(tx, source_shard) ==
    calculate_voting_power(
        {p.validator_id : p \in {q \in pc_verified :
            /\ q.transaction_hash = tx
            /\ q.source_shard = source_shard
            /\ ValidlySigned(q)}})

\* The ProvisionQuorumReached events of the last call.
QuorumReachedEvents ==
    {<<pc_ret.actions[i].tx, pc_ret.actions[i].source_shard>> :
        i \in {j \in DOMAIN pc_ret.actions :
                  pc_ret.actions[j].type = "ProvisionQuorumReached"}}

\* C7: ProvisionQuorumReached{tx, source_shard} has been emitted if and only
\* if the signature-verified provisions for tx from source_shard hold more
\* than two thirds of the committee's power; only validly signed provisions
\* are stored, so a provision that is queued, or that failed verification,
\* counts for nothing and triggers nothing.
C7_QuorumFromVerifiedProvisionsOnly ==
    /\ \A p \in pc_verified : ValidlySigned(p)
    /\ \A tx \in TxHashes, source_shard \in ShardIds :
          (<<tx, source_shard>> \in pc_emitted)
          <=> (VerifiedPower(tx, source_shard) * 3 > total_voting_power * 2)
    /\ QuorumReachedEvents \subseteq pc_emitted

\* The verified provisions of a transaction have just reached quorum while a
\* provision for it with a foreign signature is still queued, uncounted.
C7_Witness ==
    \E ev \in QuorumReachedEvents :
        /\ pc_ret.op = "ProvisionSignatureVerified"
        /\ \E p \in pc_pending :
              /\ p.transaction_hash = ev[1]
              /\ p.source_shard = ev[2]
              /\ ~ValidlySigned(p)

\* The value of a hash read as an unsigned big-endian number.
BigEndianValue(h) ==
    LET RECURSIVE value(_)
        value(i) == IF i = 0 THEN 0 ELSE value(i - 1) * 256 + h[i]
    IN value(HashLen)

\* The pairs of provisions that make a bidirectional cycle: the transaction
\* of each is local to the shard the other one needs.
CyclePairs ==
    {pr \in ll_msgs \X ll_msgs :
        /\ pr[1].target = pr[2].source
        /\ pr[2].target = pr[1].source
        /\ pr[1].target \in pr[1].needs
        /\ pr[2].target \in pr[2].needs}

\* Both shards of a cycle have had the other's provision reach quorum.
BothObserved(pr) ==
    /\ <<pr[1].tx, pr[1].source>> \in ll_provisions[pr[1].target]
    /\ <<pr[2].tx, pr[2].source>> \in ll_provisions[pr[2].target]

VotersForRoot(root) ==
    {votes_by_root[root][i].validator : i \in DOMAIN votes_by_root[root]}

\* C9: after any sequence of add and remove calls (add on a tracked
\* transaction included), tx is in the reverse set of shard s if and only if
\* s is in the forward shard set of tx.
C9_ForwardReverseConsistent ==
    \A tx \in TxHashes, shard \in ShardIds :
        (shard \in DOMAIN shards_needed_by /\ tx \in shards_needed_by[shard])
        <=> (tx \in DOMAIN txs_needing_shards /\ shard \in txs_needing_shards[tx])

\* C10: a validator's vote is counted at most once per state root: the
\* power accumulated for a root is the power of the distinct validators that
\* voted for it, and check_quorum succeeds only for a root whose distinct
\* voters reach the quorum.
C10_ValidatorCountedOncePerRoot ==
    /\ \A root \in DOMAIN power_by_root :
          power_by_root[root] = calculate_voting_power(VotersForRoot(root))
    /\ (vt_ret.op = "check_quorum" /\ vt_ret.result # None) =>
          calculate_voting_power(VotersForRoot(Unwrap(vt_ret.result)[1]))
              >= quorum_threshold


\* The power the caller passed to add_vote along with the votes of a list.
PowerAdded(votes) ==
    SumOver(DOMAIN votes, [i \in DOMAIN votes |-> voting_power(votes[i].validator)])

\* C11: check_quorum returns (root, votes, power) only for a state root
\* whose own accumulated power reaches the quorum: the powers of different
\* roots are never combined, every returned vote carries the returned root,
\* and the returned power is the sum of the powers added for that root.
C11_QuorumPerRootOnly ==
    LET r == check_quorum(VTState)
    IN /\ r # None =>
             LET root == Unwrap(r)[1]
                 votes == Unwrap(r)[2]
                 power == Unwrap(r)[3]
             IN /\ root \in DOMAIN power_by_root
                /\ power_by_root[root] >= quorum_threshold
                /\ power = power_by_root[root]
                /\ power = PowerAdded(votes)
                /\ votes = votes_by_root[root]
                /\ \A i \in DOMAIN votes : votes[i].state_root = root
       /\ (\A root \in DOMAIN power_by_root : power_by_root[root] < quorum_threshold)
             => r = None
       /\ vt_ret.op = "check_quorum" => vt_ret.result = r

\* check_quorum has answered for a tracker holding votes for two state roots
\* whose powers together reach the quorum: once with the quorum on one root,
\* once with no root reaching it.
C11_Witness ==
    /\ vt_ret.op = "check_quorum"
    /\ vt_ret.result # None
    /\ Cardinality(DOMAIN power_by_root) = NumStateRoots
    /\ \E root \in DOMAIN power_by_root : power_by_root[root] < quorum_threshold

\* C14: for every non-empty list of leaves, build_merkle_tree_with_proofs
\* returns one proof per leaf in input order and proof i verifies leaf i
\* against the returned root; for a single leaf the root is the leaf and the
\* proof has no siblings.
C14_MerkleRoundTrip ==
    mk_ret # None =>
        LET built == Unwrap(mk_ret)
        IN /\ Len(built.proofs) = Len(mk_leaves)
           /\ \A k \in DOMAIN mk_leaves :
                 /\ built.proofs[k].leaf_index = k - 1
                 /\ merkle_proof_verify(built.proofs[k], mk_leaves[k], built.root)
           /\ Len(mk_leaves) = 1 =>
                 /\ built.root = mk_leaves[1]
                 /\ built.proofs[1].siblings = <<>>
           /\ \A c \in {mk_checked} \ {None} :
                 Unwrap(c).leaf = mk_leaves[Unwrap(c).index] => Unwrap(c).ok

\* A tree over MaxLeaves leaves, padded with zero hashes, whose last proof
\* was checked against its own leaf; a zero hash is among the leaves.
C14_Witness ==
    /\ mk_ret # None
    /\ Len(mk_leaves) = MaxLeaves
    /\ next_power_of_two(Len(mk_leaves)) > Len(mk_leaves)
    /\ \E k \in DOMAIN mk_leaves : mk_leaves[k] = ZERO
    /\ mk_checked # None
    /\ Unwrap(mk_checked).index = MaxLeaves
    /\ Unwrap(mk_checked).leaf = mk_leaves[MaxLeaves]
    /\ Unwrap(mk_checked).ok
    /\ proof_depth(Unwrap(mk_ret).proofs[MaxLeaves]) = trailing_zeros(next_power_of_two(MaxLeaves))

\* How often a pending vote occurs in a list of pending votes.
PendingCount(votes, v) == Cardinality({i \in DOMAIN votes : votes[i] = v})

\* How often a pending vote occurs as the content of a list of StateVoteBlocks.
BlockCount(out, v) ==
    Cardinality({i \in DOMAIN out :
                    /\ out[i].transaction_hash = v.tx_hash
                    /\ out[i].state_root = v.state_root
                    /\ out[i].success = v.success})

\* What C12 asks of the blocks returned by a flush of the pending votes.
FlushedCorrectly(votes, out, batch_height) ==
    /\ Len(out) = Len(votes)
    /\ \A v \in PendingVotes : BlockCount(out, v) = PendingCount(votes, v)
    /\ \A i \in DOMAIN out :
          /\ out[i].vote_merkle_root = out[1].vote_merkle_root
          /\ out[i].signature = out[1].signature
          /\ out[i].batch_block_height = batch_height
          /\ verify_merkle_proof(out[i])

\* C12: every flush of n >= 1 pending votes (flush_block, flush_latent, or
\* a flush inside add_latent_vote) returns exactly n StateVoteBlocks, one per
\* pending vote, all with the same vote_merkle_root, signature and
\* batch_block_height (Some(height) for a block batch, None for a latent
\* batch), and each block's proof verifies its own leaf hash against the root.
C12_FlushReturnsOneBlockPerVote ==
    /\ pending_block_votes(VBState) >= 1 =>
          FlushedCorrectly(Unwrap(block_batch).votes, flush_block(VBState).out,
                           Some(Unwrap(block_batch).block_height))
    /\ \A at \in BatchTimes :
          pending_latent_votes(VBState) >= 1 =>
              FlushedCorrectly(latent_pending, flush_latent(VBState, at).out, None)
    /\ \A at \in BatchTimes, vote \in PendingVotes :
          LET r == add_latent_vote(VBState, vote, at)
          IN r.out # <<>> =>
                /\ FlushedCorrectly(Append(latent_pending, vote), r.out, None)
                /\ r.s.latent_pending = <<>>
    /\ vb_ret.out # <<>> =>
          /\ \A i \in DOMAIN vb_ret.out :
                /\ verify_merkle_proof(vb_ret.out[i])
                /\ vb_ret.out[i].vote_merkle_root = vb_ret.out[1].vote_merkle_root
                /\ vb_ret.out[i].signature = vb_ret.out[1].signature
                /\ (vb_ret.out[i].batch_block_height = None) <=> (vb_ret.op # "flush_block")

\* flush_block has returned a batch of MaxBatch votes, a failed execution
\* among them, each with a proof of two siblings.
C12_Witness ==
    /\ vb_ret.op = "flush_block"
    /\ Len(vb_ret.out) = MaxBatch
    /\ vb_ret.out[1].batch_block_height # None
    /\ \A i \in DOMAIN vb_ret.out : proof_depth(vb_ret.out[i].vote_merkle_proof) = 2
    /\ \E i \in DOMAIN vb_ret.out : ~vb_ret.out[i].success

\* The orders in which the votes of a list can have been added.
InsertionOrders(votes) ==
    {p \in [DOMAIN votes -> DOMAIN votes] : \A i \in DOMAIN votes : \E j \in DOMAIN votes : p[j] = i}

Reordered(votes, p) == [i \in DOMAIN votes |-> votes[p[i]]]

\* C13: the result of a flush depends only on which votes are in the batch,
\* not on the order in which they were added: any two insertion orders of
\* the same votes give the same Merkle root, signature and output list, and
\* the output is in ascending tx_hash order.
C13_FlushOrderIndependent ==
    pending_block_votes(VBState) >= 1 =>
        LET votes == Unwrap(block_batch).votes
            out == flush_block(VBState).out
        IN /\ \A i \in DOMAIN out, j \in DOMAIN out :
                 i < j => ~hash_greater(out[i].transaction_hash, out[j].transaction_hash)
           /\ \A p \in InsertionOrders(votes) :
                 create_batched_votes(Reordered(votes, p),
                                      Some(Unwrap(block_batch).block_height)) = out

VotesCreated(ret) ==
    IF ret.op = "create_view_change_vote"
    THEN (IF ret.result = None THEN <<>> ELSE <<Unwrap(ret.result)>>)
    ELSE IF ret.op = "on_view_change_timer"
    THEN SelectSeq([i \in 1 .. Len(ret.actions) |->
                       IF ret.actions[i].type = "BroadcastViewChangeVote"
                       THEN ret.actions[i].vote ELSE None],
                   LAMBDA v : v # None)
    ELSE <<>>

\* The calls that open a new timeout window: reset_timeout, and a view
\* change applied from a quorum of votes or from an accepted certificate.
WindowOpened(ret) ==
    \/ ret.op = "reset_timeout"
    \/ /\ ret.op \in {"apply_view_change", "on_view_change_certificate",
                      "on_view_change_timer"}
       /\ \E i \in 1 .. Len(ret.actions) :
             ret.actions[i].type = "ViewChangeCompleted"

\* One step of the machine, seen from the timeout window it falls in.
WindowStep ==
    LET created == VotesCreated(vc_ret') IN
    /\ Len(created) <= 1
    /\ created # <<>> =>
          /\ ~timeout_vote_broadcast
          /\ created[1].height = current_height
          /\ created[1].new_view = current_round + 1
          /\ created[1].voter = LocalValidator
          /\ timeout_vote_broadcast' \/ WindowOpened(vc_ret')
    /\ (timeout_vote_broadcast /\ ~timeout_vote_broadcast') => WindowOpened(vc_ret')

\* C16: within one timeout window (from one reset of timeout_vote_broadcast
\* by reset_timeout, an applied view change or an accepted certificate to the
\* next) at most one ViewChangeVote is created, however often the timer
\* fires or create_view_change_vote is called: a vote is created only while
\* the guard is clear, the guard is set by the creation, and it stays set
\* until a call that opens the next window.  The vote is for current_height
\* and new round current_round + 1.
C16_OneVotePerTimeoutWindow == [][WindowStep]_vars

\* A second window, at round 1 or later, in which a vote was created and a
\* further create_view_change_vote returned nothing.
C16_Witness ==
    /\ vc_ret.op = "create_view_change_vote"
    /\ vc_ret.result = None
    /\ timeout_vote_broadcast
    /\ current_round >= 1

\* The votes add_view_change_vote has to turn away in state s: stale height,
\* stale round, voter outside the local committee, a signature that is not
\* the voter's over the vote's message, or an attached QC that is neither
\* genesis nor backed by quorum power.
MustBeRejected(s, vote) ==
    \/ vote.height < s.current_height
    \/ (vote.height = s.current_height /\ vote.new_view <= s.current_round)
    \/ vote.voter \notin CommitteeIds
    \/ vote.signature # sign(vote.voter,
                             view_change_message(vote.height, vote.new_view))
    \/ (~qc_is_genesis(vote.highest_qc)
        /\ ~qc_has_quorum(vote.highest_qc, total_voting_power))

\* C17: for every vote with a stale height, a stale round, a voter outside
\* the local committee, a bad signature or an attached highest_qc that is
\* neither genesis nor has quorum, add_view_change_vote returns None and
\* leaves vote_collector, highest_qc_collector, current_round and
\* current_height as they were.
C17_RejectedVoteChangesNothing ==
    /\ \A vote \in VoteInputs :
          MustBeRejected(VCState, vote) =>
             LET r == add_view_change_vote(VCState, vote)
             IN /\ r.result = None
                /\ r.s.vote_collector = vote_collector
                /\ r.s.highest_qc_collector = highest_qc_collector
                /\ r.s.current_round = current_round
                /\ r.s.current_height = current_height
    /\ (vc_ret.op = "add_view_change_vote" /\ vc_ret.log = <<"rejected">>)
          => vc_ret.result = None

\* A vote was turned away by a machine that holds votes and has moved past
\* round 0 at height 1, so that votes of every rejected kind exist.
C17_Witness ==
    /\ vc_ret.op = "add_view_change_vote"
    /\ vc_ret.log = <<"rejected">>
    /\ vote_collector # <<>>
    /\ current_round >= 1
    /\ current_height >= 1
    /\ \A kind \in 1 .. 5 :
          \E vote \in VoteInputs :
             /\ kind = 1 => vote.height < current_height
             /\ kind = 2 => (vote.height = current_height
                             /\ vote.new_view <= current_round)
             /\ kind = 3 => (vote.height >= current_height
                             /\ vote.new_view > current_round
                             /\ vote.voter \notin CommitteeIds)
             /\ kind = 4 => (vote.height >= current_height
                             /\ vote.new_view > current_round
                             /\ vote.voter \in CommitteeIds
                             /\ vote.signature # sign(vote.voter,
                                    view_change_message(vote.height, vote.new_view)))
             /\ kind = 5 => (vote.height >= current_height
                             /\ vote.new_view > current_round
                             /\ vote.voter \in CommitteeIds
                             /\ vote.signature = sign(vote.voter,
                                    view_change_message(vote.height, vote.new_view))
                             /\ ~qc_is_genesis(vote.highest_qc)
                             /\ ~qc_has_quorum(vote.highest_qc, total_voting_power))

\* vote repeats a vote the state already holds: it passes the checks and its
\* voter is recorded under its (height, new_view).
IsDuplicateVote(s, vote) ==
    LET vote_key == <<vote.height, vote.new_view>> IN
    /\ ~vote_rejected(s, vote)
    /\ vote_key \in DOMAIN s.vote_collector
    /\ vote.voter \in DOMAIN s.vote_collector[vote_key]

\* C18: a duplicate view-change vote (same voter, height and new round as a
\* vote already recorded) changes neither the recorded voters nor the highest
\* QC recorded for its key, and the certificate built for that key afterwards
\* is the one that would have been built without the duplicate.
C18_DuplicateVoteIsNoOp ==
    \A vote \in VoteInputs :
       IsDuplicateVote(VCState, vote) =>
          LET r == add_view_change_vote(VCState, vote)
          IN /\ r.s.vote_collector = vote_collector
             /\ r.s.highest_qc_collector = highest_qc_collector
             /\ build_certificate(r.s, vote.height, vote.new_view)
                   = build_certificate(VCState, vote.height, vote.new_view)

\* The part of C18 about the recorded voters alone.
DuplicateVoteKeepsVoters ==
    \A vote \in VoteInputs :
       IsDuplicateVote(VCState, vote) =>
          add_view_change_vote(VCState, vote).s.vote_collector = vote_collector

\* C19: reset_timeout(h) sets current_round to 0 exactly when h is strictly
\* greater than the height held before the call; at the same height (or a
\* lower one) the round is kept.
C19_RoundResetOnlyOnHigherHeight ==
    \A h \in Heights :
       LET r == reset_timeout(VCState, h)
       IN /\ r.current_height = h
          /\ h > current_height => r.current_round = 0
          /\ h <= current_height => r.current_round = current_round

\* reset_timeout was called at a height not above the one held and kept a
\* round past 0, in a state from which a reset to a higher height is also
\* possible.
C19_Witness ==
    /\ vc_ret.op = "reset_timeout"
    /\ current_round >= 1
    /\ current_height < MaxHeight

\* The (height, new_view) keys held by either collector of s.
CollectorKeys(s) == DOMAIN s.vote_collector \cup DOMAIN s.highest_qc_collector

\* C20: reset_timeout(h) removes every entry for a height below h from
\* vote_collector and from highest_qc_collector (and keeps the others), and
\* in every reachable state neither collector holds an entry for a height
\* below current_height.
C20_NoEntryBelowCurrentHeight ==
    /\ \A h \in Heights :
          LET r == reset_timeout(VCState, h)
          IN /\ \A k \in CollectorKeys(r) : k[1] >= h
             /\ DOMAIN r.vote_collector =
                   {k \in DOMAIN vote_collector : k[1] >= h}
             /\ DOMAIN r.highest_qc_collector =
                   {k \in DOMAIN highest_qc_collector : k[1] >= h}
    /\ \A k \in CollectorKeys(VCState) : k[1] >= current_height

\* After a reset_timeout, both collectors hold an entry for height 0 and one
\* for height 1 at current_height 0: a reset to height 1 removes the first
\* and keeps the second.
C20_Witness ==
    /\ vc_ret.op = "reset_timeout"
    /\ current_height = 0
    /\ \A h \in {0, 1} :
          /\ \E k \in DOMAIN vote_collector : k[1] = h
          /\ \E k \in DOMAIN highest_qc_collector : k[1] = h

\* C21: a ViewChangeTimer that fires when now - last_progress_time <= timeout
\* (reset_timeout or a view change refreshed last_progress_time after the
\* timer was armed) broadcasts no vote and leaves the round, the height, the
\* broadcast guard and the collectors as they were.
C21_StaleTimerIsNoOp ==
    now - last_progress_time <= Timeout =>
          LET r == on_view_change_timer(VCState)
          IN /\ \A i \in 1 .. Len(r.actions) :
                   r.actions[i].type # "BroadcastViewChangeVote"
             /\ r.s.current_round = current_round
             /\ r.s.current_height = current_height
             /\ r.s.timeout_vote_broadcast = timeout_vote_broadcast
             /\ r.s.vote_collector = vote_collector
             /\ r.s.highest_qc_collector = highest_qc_collector

\* The timer fired past height 0 at a time later than the timeout, after
\* last_progress_time had been refreshed to within the timeout, and did
\* nothing but re-arm itself.
C21_Witness ==
    /\ vc_ret.op = "on_view_change_timer"
    /\ Len(vc_ret.actions) = 1
    /\ current_height >= 1
    /\ now > Timeout
    /\ last_progress_time > 0
    /\ now - last_progress_time <= Timeout
    /\ ~timeout_vote_broadcast

\* C22, as stated: while current_height is 0 a firing ViewChangeTimer returns
\* an empty action list, creates no vote and changes no state.
C22_Original ==
    current_height = 0 =>
       LET r == on_view_change_timer(VCState)
       IN /\ r.actions = <<>>
          /\ r.s = VCState

\* C22, amended: while current_height is 0 a firing ViewChangeTimer returns
\* the SetTimer that re-arms it and nothing else, whatever time has elapsed:
\* no vote is created and no state changes.
C22_GenesisTimerOnlyRearms ==
    /\ current_height = 0 =>
          LET r == on_view_change_timer(VCState)
          IN /\ r.actions = <<[type |-> "SetTimer", id |-> "ViewChange",
                               duration |-> Timeout]>>
             /\ r.s = VCState
    /\ (vc_ret.op = "on_view_change_timer" /\ current_height = 0)
          => /\ Len(vc_ret.actions) = 1
             /\ vc_ret.actions[1].type = "SetTimer"

\* The timer fired at height 0 with more than the timeout elapsed since the
\* last progress.
C22_Witness ==
    /\ vc_ret.op = "on_view_change_timer"
    /\ current_height = 0
    /\ now - last_progress_time > Timeout
    /\ ~timeout_vote_broadcast

\* add_latent_vote(vote, at) on the current batcher did what it has to:
\* flushed everything, the new vote included, when due, and kept the vote
\* pending otherwise.
LatentVoteHandled(vote, at) ==
    LET r == add_latent_vote(VBState, vote, at)
        pushed == Append(latent_pending, vote)
        due == \/ Len(pushed) >= latent_flush_threshold
               \/ at - latent_last_flush > latent_flush_interval
    IN IF due
       THEN /\ Len(r.out) = Len(pushed)
            /\ \A i \in 1 .. Len(pushed) :
                  \E j \in 1 .. Len(r.out) :
                     /\ r.out[j].transaction_hash = pushed[i].tx_hash
                     /\ r.out[j].state_root = pushed[i].state_root
                     /\ r.out[j].success = pushed[i].success
                     /\ r.out[j].batch_block_height = None
            /\ r.s.latent_pending = <<>>
            /\ r.s.latent_last_flush = at
       ELSE /\ r.out = <<>>
            /\ r.s.latent_pending = pushed
            /\ r.s.latent_last_flush = latent_last_flush

\* C23: add_latent_vote appends the vote and flushes all pending latent
\* votes, the new one included, exactly when the pending count has reached
\* the threshold or now - last_flush is strictly greater than the interval;
\* otherwise it returns nothing and the vote stays pending.  With the
\* default configuration (threshold 1) nothing is ever left pending and
\* every add_latent_vote returns a batch of one.
C23_LatentFlushWhenDue ==
    /\ \A vote \in PendingVotes, at \in BatchTimes : LatentVoteHandled(vote, at)
    /\ latent_flush_threshold = vote_batcher_new.latent_flush_threshold =>
          /\ latent_pending = <<>>
          /\ vb_ret.op = "add_latent_vote" => Len(vb_ret.out) = 1

\* A batcher with a threshold above 1 holds a pending latent vote after an
\* add_latent_vote that returned nothing, and a further vote is due by count
\* at some time and not yet due at another.
C23_Witness ==
    /\ vb_ret.op = "add_latent_vote"
    /\ vb_ret.out = <<>>
    /\ Len(latent_pending) >= 1
    /\ Len(latent_pending) + 1 = latent_flush_threshold
    /\ latent_last_flush >= 1

\* The default batcher emitted a latent vote at once.
LatentDefaultEmitted ==
    /\ vb_ret.op = "add_latent_vote"
    /\ latent_flush_threshold = 1
    /\ Len(vb_ret.out) = 1

\* The proposers the calls for rounds first .. first + n - 1 at a height
\* return, over every outcome of each call.
ProposersWithin(committee, height, first) ==
    UNION {proposer_for(committee, height, first + k) :
              k \in 0 .. Len(committee) - 1}

\* C24: proposer_for(height, round) is the committee member at index
\* (height + round) mod committee_size; so, at a fixed height, raising the
\* round by one selects a different proposer when the committee has at least
\* two members, and every member is proposer in some round of any
\* committee_size consecutive rounds.
C24_ProposerRotation ==
    LET n == Len(pf_committee) IN
    /\ pf_ret = Some(pf_committee[((pf_height + pf_round) % n) + 1])
    /\ (n >= 2 /\ pf_round + 1 \in Words) =>
          \A next \in proposer_for(pf_committee, pf_height, pf_round + 1) :
             next # pf_ret
    /\ pf_round + n - 1 \in Words =>
          \A i \in 1 .. n :
             Some(pf_committee[i]) \in ProposersWithin(pf_committee, pf_height, pf_round)

\* The same rotation for the calls whose height + round fits the integer
\* type, over rounds that fit it as well.
ProposerRotationWithoutOverflow ==
    LET n == Len(pf_committee) IN
    pf_height + pf_round + n < WordModulus =>
       /\ pf_ret = Some(pf_committee[((pf_height + pf_round) % n) + 1])
       /\ n >= 2 =>
             proposer_for(pf_committee, pf_height, pf_round + 1) \cap {pf_ret} = {}
       /\ \A i \in 1 .. n :
             Some(pf_committee[i]) \in ProposersWithin(pf_committee, pf_height, pf_round)

\* The sub-machines that take the event, in their declared order.
Takers(event) == {i \in 1 .. NumSubMachines : event \in handled_events(i)}

\* C25: the composite machine offers an event to its sub-machines in their
\* declared order and returns the actions of the first whose try_handle
\* returns Some; no later sub-machine is asked or changed; when none handles
\* the event, every sub-machine was asked and the action list is empty.
C25_FirstHandlerWins ==
    \A event \in Events :
       LET r == handle(cm_subs, event)
           takers == Takers(event)
       IN IF takers = {}
          THEN /\ r.actions = <<>>
               /\ \A i \in 1 .. NumSubMachines :
                     r.subs[i].asked = cm_subs[i].asked + 1
          ELSE LET first == CHOOSE i \in takers : \A j \in takers : i <= j
               IN /\ r.actions = Unwrap(try_handle(cm_subs[first], first, event).result)
                  /\ r.subs[first] = try_handle(cm_subs[first], first, event).s
                  /\ \A i \in 1 .. first - 1 :
                        /\ r.subs[i].asked = cm_subs[i].asked + 1
                        /\ r.subs[i].handled = cm_subs[i].handled
                  /\ \A i \in first + 1 .. NumSubMachines :
                        r.subs[i] = cm_subs[i]

\* The composite machine has handled an event that two sub-machines take:
\* the first of them answered and the later one was not asked, while an
\* earlier sub-machine was asked and declined.
C25_Witness ==
    /\ cm_event = 2
    /\ Takers(cm_event) = {2, 3}
    /\ cm_ret = <<[type |-> "Handled", by |-> 2, event |-> 2]>>
    /\ cm_subs[1].asked > cm_subs[3].asked
    /\ cm_subs[2].handled >= 1

\* C26: get_node(k) on the overlay returns the node most recently inserted
\* for k unless k was marked stale after that insert; a key marked stale
\* reads as None, whatever the base store holds, until it is inserted again;
\* a key neither inserted nor marked stale reads as in the base store; and
\* the base store is what it was when the overlay was made.
C26_OverlayReadsOwnWrites ==
    /\ \A key \in NodeKeys :
          get_node(OVState, key) =
             IF ov_history[key][1] = "inserted" THEN Some(ov_history[key][2])
             ELSE IF ov_history[key][1] = "stale" THEN None
             ELSE base_get_node(ov_base_at_new, key)
    /\ base = ov_base_at_new
    /\ \A key \in NodeKeys, node \in TreeNodes :
          insert_node(OVState, key, node).base = base
    /\ \A part \in StaleTreeParts :
          record_stale_tree_part(OVState, part).base = base

\* Over a base store that holds both keys, the overlay has inserted a node
\* for key 1 and marked it stale afterwards, and has re-inserted key 2 after
\* marking it stale.
C26_Witness ==
    /\ \A key \in NodeKeys : base[key] # None
    /\ ov_history[1] = <<"stale">>
    /\ 1 \in DOMAIN inserted_nodes
    /\ ov_history[2][1] = "inserted"
    /\ Some(ov_history[2][2]) # base[2]
    /\ 2 \notin stale_keys

\* C27: for every index at or past num_validators, on the empty bitfield
\* too, is_set returns false and set and clear return with the bitfield
\* unchanged; none of the three panics.
C27_OutOfRangeIsNotSet ==
    /\ \A index \in BitIndices :
          index >= signer_bitfield.num_validators =>
             /\ is_set(signer_bitfield, index) = FALSE
             /\ signer_bitfield_set(signer_bitfield, index) = Some(signer_bitfield)
             /\ signer_bitfield_clear(signer_bitfield, index) = Some(signer_bitfield)
    /\ \A index \in BitIndices :
          \A bf \in {signer_bitfield_empty, signer_bitfield_new(0)} :
             /\ is_set(bf, index) = FALSE
             /\ signer_bitfield_set(bf, index) = Some(bf)
             /\ signer_bitfield_clear(bf, index) = Some(bf)
    /\ (sb_ret.op \in {"set", "clear"}
        /\ sb_ret.index >= signer_bitfield.num_validators)
          => sb_ret.result = None

\* set was called with an index past num_validators, inside the last byte
\* held, on a bitfield made by new that has a bit set.
C27_Witness ==
    /\ sb_ret.op = "set"
    /\ sb_ret.index >= signer_bitfield.num_validators
    /\ sb_ret.index \div 8 < Len(signer_bitfield.bits)
    /\ signer_bitfield.num_validators = 3
    /\ signer_bitfield.bits = <<2>>

\* The voting power of the committee members marked in a signer bitfield.
BitfieldSignerPower(bf) ==
    calculate_voting_power(set_indices(bf) \cap CommitteeIds)

\* C28: a received ViewChangeCertificate advances the round only if the
\* validators marked in its signer bitfield hold more than two thirds of the
\* total voting power; the voting_power it declares does not suffice for a
\* certificate with fewer signers.
C28_CertificateNeedsSignerQuorum ==
    /\ \A cert \in CertificateInputs :
          on_view_change_certificate(VCState, cert).actions # <<>> =>
             BitfieldSignerPower(cert.signers) * 3 > total_voting_power * 2
    /\ \A cert \in CertificateInputs :
          BitfieldSignerPower(cert.signers) * 3 <= total_voting_power * 2 =>
             on_view_change_certificate(VCState, cert).s.current_round = current_round


\* The voters recorded for (height, new_view) in the current state.
RecordedVoters(height, new_view) ==
    IF <<height, new_view>> \in DOMAIN vote_collector
    THEN DOMAIN vote_collector[<<height, new_view>>] ELSE {}

\* A valid vote of a committee member not yet recorded, for the round after
\* the current one at the current height, past genesis.
NextRoundVotes ==
    {vote \in VoteInputs :
        /\ current_height > 0
        /\ vote.height = current_height
        /\ vote.new_view = current_round + 1
        /\ vote.voter \in CommitteeIds
        /\ vote.signature = sign(vote.voter,
                                 view_change_message(vote.height, vote.new_view))
        /\ (qc_is_genesis(vote.highest_qc)
            \/ qc_has_quorum(vote.highest_qc, total_voting_power))
        /\ vote.voter \notin RecordedVoters(vote.height, vote.new_view)}

\* C29: at height h > 0 and round r, the valid vote for (h, r + 1) that
\* brings the distinct voters' power above two thirds of the total makes
\* add_view_change_vote return Some((h, r + 1)); applying it sets
\* current_round to r + 1, clears the broadcast guard, broadcasts a
\* ViewChangeCertificate of those voters and enqueues
\* ViewChangeCompleted{h, r + 1}.  With less power the vote returns None and
\* the round does not change.
C29_QuorumOfVotesChangesView ==
    \A vote \in NextRoundVotes :
       LET added == add_view_change_vote(VCState, vote)
           voters == RecordedVoters(vote.height, vote.new_view) \cup {vote.voter}
           power == calculate_voting_power(voters)
       IN IF power * 3 > total_voting_power * 2
          THEN /\ added.result = Some(<<current_height, current_round + 1>>)
               /\ LET applied == apply_view_change(added.s, current_height,
                                                   current_round + 1)
                  IN /\ applied.s.current_round = current_round + 1
                     /\ applied.s.current_height = current_height
                     /\ ~applied.s.timeout_vote_broadcast
                     /\ Len(applied.actions) = 2
                     /\ applied.actions[1].type = "BroadcastViewChangeCertificate"
                     /\ applied.actions[1].certificate.height = current_height
                     /\ applied.actions[1].certificate.new_view = current_round + 1
                     /\ set_indices(applied.actions[1].certificate.signers)
                           = {Unwrap(committee_index(v)) : v \in voters}
                     /\ applied.actions[1].certificate.voting_power = power
                     /\ applied.actions[2] =
                           [type |-> "ViewChangeCompleted",
                            height |-> current_height,
                            new_round |-> current_round + 1]
          ELSE /\ added.result = None
               /\ added.s.current_round = current_round
               /\ added.s.current_height = current_height

\* Past genesis, with the broadcast guard set, one vote is recorded for the
\* next round and does not make a quorum; a further vote completes it and
\* another one would not.
C29_Witness ==
    /\ current_height > 0
    /\ timeout_vote_broadcast
    /\ vc_ret.op = "add_view_change_vote"
    /\ vc_ret.result = None
    /\ RecordedVoters(current_height, current_round + 1) # {}
    /\ \E vote \in NextRoundVotes :
          add_view_change_vote(VCState, vote).result # None
    /\ \E vote \in NextRoundVotes :
          add_view_change_vote(VCState, vote).result = None

\* The rounds for which the collector holds, at the current height, votes of
\* distinct voters with more than two thirds of the total power.
QuorumRounds ==
    {k[2] : k \in {key \in DOMAIN vote_collector :
                      /\ key[1] = current_height
                      /\ calculate_voting_power(DOMAIN vote_collector[key]) * 3
                            > total_voting_power * 2}}

\* C30: provided the caller applies every quorum add_view_change_vote
\* reports, in every state reached after an operation completes, a quorum of
\* votes held for (current_height, r) implies current_round >= r; so a
\* quorum collected for a height not yet reached takes effect once
\* reset_timeout brings the node to that height.
C30_HeldQuorumIsApplied ==
    \A r \in QuorumRounds : current_round >= r

\* A quorum reported for the height the node is at has been applied when the
\* delivery of the vote completes.
ReportedQuorumApplied ==
    (/\ vc_ret.op = "receive_view_change_vote"
     /\ vc_ret.result # None
     /\ Unwrap(vc_ret.result)[1] = current_height)
       => current_round >= Unwrap(vc_ret.result)[2]


\* C31: for any committee and any two sets of voters that each satisfy
\* has_quorum against the committee's total voting power, the voters common
\* to both sets hold strictly more than one third of the total voting power.
C31_QuorumsIntersect ==
    \A first \in qi_quorums, second \in qi_quorums :
       3 * power_of(qi_powers, first \cap second) > committee_total(qi_powers)

\* The same intersection for the committees whose total, tripled, fits the
\* integer type.
QuorumsIntersectWithoutOverflow ==
    3 * committee_total(qi_powers) < WordModulus => C31_QuorumsIntersect

\* C32: for every total voting power t and accumulated power v,
\* v >= quorum_threshold_for_shard holds exactly when has_quorum(v, t) holds,
\* and a tracker created with that threshold reports quorum for a power
\* exactly when it is strictly more than two thirds of the total.
C32_ThresholdMatchesHasQuorum ==
    /\ qt_threshold # MulPanic
    /\ qt_has_quorum # MulPanic
    /\ qt_reported <=> Unwrap(qt_has_quorum)
    /\ qt_reported <=> 3 * qt_voted > 2 * qt_total

\* The same equivalence for the totals and powers whose products fit the
\* integer type.
ThresholdMatchesWithoutOverflow ==
    (3 * qt_voted < WordModulus /\ 2 * qt_total < WordModulus) =>
       C32_ThresholdMatchesHasQuorum

\* The call that made the step completed a view change to the round the
\* step ends in: an applied view change (by the caller or inside the timer)
\* or an accepted certificate.
RoundChangedByViewChange(ret, height, round) ==
    /\ ret.op \in {"apply_view_change", "on_view_change_timer",
                   "on_view_change_certificate"}
    /\ \E i \in DOMAIN ret.actions :
          ret.actions[i] = [type |-> "ViewChangeCompleted",
                            height |-> height, new_round |-> round]

\* A step of the machine that keeps the height, and apply_view_change on a
\* stale target in the state the step starts from.
RoundStep ==
    /\ current_height' = current_height =>
          /\ current_round' >= current_round
          /\ current_round' # current_round =>
                RoundChangedByViewChange(vc_ret', current_height, current_round')
    /\ \A height \in Heights, new_round \in Rounds :
          (height # current_height \/ new_round <= current_round) =>
             apply_view_change(VCState, height, new_round)
                = [s |-> VCState, actions |-> <<>>]

\* C33: while current_height stays the same, current_round never decreases,
\* and it changes only through an applied view change or an accepted
\* certificate whose round is strictly greater than the current one;
\* apply_view_change for a different height or for a round <= current_round
\* returns no actions and changes nothing.
C33_RoundOnlyRisesAtAHeight == [][RoundStep]_vars

\* A view change was applied at round 1 or later, so rounds at or below the
\* current one exist next to round 0, and the height is past genesis.
C33_Witness ==
    /\ vc_ret.op = "apply_view_change"
    /\ vc_ret.actions # <<>>
    /\ current_round >= 2
    /\ current_height >= 1

\* C34: current_height never decreases over any sequence of reset_timeout,
\* vote, certificate and timer operations.
C34_HeightNeverDecreases == [][current_height' >= current_height]_vars

\* The height changes in reset_timeout alone, and there it becomes the
\* argument of the call, lower or not.
HeightChangesOnlyInResetTimeout ==
    [][current_height' # current_height => vc_ret'.op = "reset_timeout"]_vars

\* The pending vote a StateVoteBlock was built from.
vote_of(block) ==
    [tx_hash |-> block.transaction_hash, state_root |-> block.state_root,
     success |-> block.success]

\* The returned blocks are the handed-over votes, each as often as it was
\* handed over.
SameVotes(out, handed) ==
    /\ Len(out) = Len(handed)
    /\ \A v \in PendingVotes :
          Cardinality({i \in DOMAIN out : vote_of(out[i]) = v})
             = Cardinality({i \in DOMAIN handed : handed[i].vote = v})

\* C35: every vote added to the batcher is returned by exactly one later
\* flush and by none after it: the last call returned exactly the votes
\* handed over since the flush before it (an empty list when there were
\* none), the batches hold exactly the votes no flush has returned yet, a
\* flush empties the batch it finalizes and leaves the other batch as it
\* was, and a block batch started after flush_block holds only the vote
\* added after it.
C35_EachVoteFlushedOnce ==
    ~fh_panicked =>
       /\ SameVotes(vb_ret.out, fh_flushed)
       /\ latent_pending = [i \in DOMAIN fh_latent |-> fh_latent[i].vote]
       /\ IF block_batch = None THEN fh_block = <<>>
          ELSE Unwrap(block_batch).votes = [i \in DOMAIN fh_block |-> fh_block[i].vote]
       /\ LET flushed == flush_block(VBState)
          IN /\ pending_block_votes(flushed.s) = 0
             /\ flushed.s.latent_pending = latent_pending
             /\ pending_block_votes(VBState) = 0 => flushed.out = <<>>
             /\ flush_block(flushed.s).out = <<>>
             /\ \A batch_height \in BatchHeights, vote \in FlushVotes :
                   Unwrap(add_block_vote(flushed.s, batch_height, vote).s.block_batch)
                      = [block_height |-> batch_height, votes |-> <<vote>>]
       /\ \A at \in BatchTimes :
             LET flushed == flush_latent(VBState, at)
             IN /\ flushed.s.latent_pending = <<>>
                /\ flushed.s.block_batch = block_batch
                /\ latent_pending = <<>> => flushed.out = <<>>
                /\ flush_latent(flushed.s, at).out = <<>>

\* flush_block has returned two votes while a latent vote stays pending,
\* and the same vote was in both batches.
C35_Witness ==
    /\ ~fh_panicked
    /\ vb_ret.op = "flush_block"
    /\ Len(vb_ret.out) = 2
    /\ Len(latent_pending) = 1
    /\ \E i \in DOMAIN vb_ret.out : vote_of(vb_ret.out[i]) = latent_pending[1]

\* The returned blocks are the handed-over votes, each with the height it
\* was handed over with.
SameVotesAndHeights(out, handed) ==
    /\ Len(out) = Len(handed)
    /\ \A v \in PendingVotes, h \in {Some(height) : height \in BatchHeights} :
          Cardinality({i \in DOMAIN out :
                          vote_of(out[i]) = v /\ out[i].batch_block_height = h})
             = Cardinality({i \in DOMAIN handed :
                               handed[i].vote = v /\ handed[i].height = h})

\* C36: all votes in one block batch share one height: every StateVoteBlock
\* returned by flush_block carries as batch_block_height the height that was
\* passed to add_block_vote when that vote was added, and no call of
\* add_block_vote fails.
C36_BlockVotesCarryTheirHeight ==
    /\ ~fh_panicked
    /\ vb_ret.op = "flush_block" => SameVotesAndHeights(vb_ret.out, fh_flushed)

\* The same for the batches whose votes were all added with the height of
\* the first one.
BlockVotesCarrySharedHeight ==
    (/\ ~fh_panicked
     /\ vb_ret.op = "flush_block"
     /\ \A i \in DOMAIN fh_flushed : fh_flushed[i].height = fh_flushed[1].height)
       => SameVotesAndHeights(vb_ret.out, fh_flushed)

\* C37: every call of on_view_change_timer returns, as its first action,
\* SetTimer{ViewChange, timeout}, whether or not a view change is triggered,
\* so the timer is re-armed after every firing.
C37_TimerAlwaysRearmed ==
    LET r == on_view_change_timer(VCState)
        set_timer == [type |-> "SetTimer", id |-> "ViewChange", duration |-> Timeout]
    IN /\ r.actions # <<>>
       /\ r.actions[1] = set_timer
       /\ \A i \in DOMAIN r.actions : i > 1 => r.actions[i].type # "SetTimer"
       /\ vc_ret.op = "on_view_change_timer" =>
             /\ vc_ret.actions # <<>>
             /\ vc_ret.actions[1] = set_timer

\* The timer has fired three ways: without a view change being due, with a
\* vote broadcast that waits for peers, and with the local vote completing a
\* quorum.
C37_Witness ==
    /\ vc_ret.op = "on_view_change_timer"
    /\ Len(vc_ret.actions) >= 3
    /\ Len(on_view_change_timer(VCState).actions) = 1
    /\ current_round >= 1

\* No list handed to the builder is empty.
NoEmptyLeaves(calls) == \A i \in DOMAIN calls : calls[i] # <<>>

\* The blocks a method returned come from the builder call it made: none
\* without a call, and with a call one block per leaf under the root of the
\* tree over those leaves.
BuiltFrom(out, calls) ==
    IF calls = <<>> THEN out = <<>>
    ELSE /\ Len(calls) = 1
         /\ Len(out) = Len(calls[1])
         /\ \A i \in DOMAIN out :
               /\ leaf_hash(out[i]) = calls[1][i]
               /\ out[i].vote_merkle_root = build_merkle_tree_with_proofs(calls[1]).root

\* C38: no sequence of VoteBatcher operations calls
\* build_merkle_tree_with_proofs with an empty list of leaves: in every state
\* of the batcher flush_block, flush_latent and add_latent_vote hand the
\* builder only non-empty lists, and create_batched_votes hands it nothing
\* for an empty batch.
C38_BuilderNeverGetsEmptyLeaves ==
    ~fh_panicked =>
       /\ NoEmptyLeaves(create_batched_votes_calls(<<>>))
       /\ NoEmptyLeaves(flush_block_calls(VBState))
       /\ BuiltFrom(flush_block(VBState).out, flush_block_calls(VBState))
       /\ \A at \in BatchTimes :
             /\ NoEmptyLeaves(flush_latent_calls(VBState))
             /\ BuiltFrom(flush_latent(VBState, at).out, flush_latent_calls(VBState))
             /\ \A vote \in FlushVotes :
                   /\ NoEmptyLeaves(add_latent_vote_calls(VBState, vote, at))
                   /\ BuiltFrom(add_latent_vote(VBState, vote, at).out,
                                add_latent_vote_calls(VBState, vote, at))

\* flush_block was called with no block batch while latent votes are
\* pending: the flush made no call, a flush_latent now makes one, and an
\* add_latent_vote may or may not.
C38_Witness ==
    /\ ~fh_panicked
    /\ vb_ret.op = "flush_block"
    /\ vb_ret.out = <<>>
    /\ fh_flushed = <<>>
    /\ flush_latent_calls(VBState) # <<>>
    /\ \E vote \in FlushVotes : add_latent_vote_calls(VBState, vote, 0) = <<>>
    /\ \E vote \in FlushVotes : add_latent_vote_calls(VBState, vote, MaxTime) # <<>>

\* C39: for every shard committee, BlockHeader::expected_proposer
\* (committee_size) names the same validator as Topology::proposer_for
\* (height, round) for the header's height and round.
C39_HeaderProposerIsTopologyProposer == ep_expected = ep_proposer

\* The same agreement for the committees that list the validators
\* 0 .. size - 1 in this order.
HeaderProposerOnCountedCommittee ==
    LET committee == ep_local_committee(ep_validators, ep_num_shards, ep_local)
    IN (\A i \in DOMAIN committee : committee[i] = i - 1) => ep_expected = ep_proposer

\* C40: for every state machine, including one composed of sub-machines,
\* now() returns the time most recently passed to set_time().
C40_NowIsLastSetTime ==
    /\ ct_passed # None => composite_now(ct_sub_now) = Unwrap(ct_passed)
    /\ (ct_passed # None /\ ct_now_ret # None) => ct_now_ret = ct_passed

\* Every sub-machine of the composite holds the time most recently passed to
\* set_time.
SubMachinesHoldLastSetTime ==
    ct_passed # None => \A i \in DOMAIN ct_sub_now : ct_sub_now[i] = Unwrap(ct_passed)
====
